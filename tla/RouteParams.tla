----------------------------- MODULE RouteParams ----------------------------
(***************************************************************************)
(* route_extract_params of php_phiz.c: one pass over a route pattern such  *)
(* as /series/{id}, which gives the regular expression of the route and    *)
(* the number of the group that each parameter is.                         *)
(*                                                                         *)
(* A character is a string of length 1 (no pattern holds a zero byte), a   *)
(* pattern a sequence of them, and `cursor' counts from 0, as in C.  Each  *)
(* round of the loop is an action, named for what it finds at the cursor.  *)
(***************************************************************************)
EXTENDS Integers, Sequences, FiniteSets

CONSTANTS
    Char,       \* the characters in use
    Alpha,      \* the letters among them
    Digit,      \* the digits among them
    Patterns,   \* the patterns a script passes
    ItemLists   \* sequences of items that a script puts a pattern together from

ASSUME PatternsAssumption ==
    /\ Alpha \subseteq Char /\ Digit \subseteq Char
    /\ {"{", "}", "(", ")", ":"} \subseteq Char \ (Alpha \cup Digit)
    /\ Patterns \subseteq Seq(Char)
    /\ ItemLists \subseteq Seq([kind : {"literal", "param", "typed", "group"},
                               text : Seq(Char), name : Seq(Char)])

VARIABLES
    written,        \* history: the items of the pattern, <<>> if it has none
    pat,            \* the pattern
    cursor,
    bracketCount, parenCount,
    marker,         \* where the text of the outermost bracket begins
    middle,         \* how many characters of it have been passed, brackets too
    matchCount,     \* groups so far
    variable, regex_str,    \* name and type of the last bracket with a colon
    route_str,      \* the regular expression so far
    matches,        \* the group of each parameter
    prevCh

vars == <<written, pat, cursor, bracketCount, parenCount, marker, middle,
          matchCount, variable, regex_str, route_str, matches, prevCh>>

\* The characters of the regular expression for a parameter without a type.
k_route == <<"(", "[^/]*", ")">>

-----------------------------------------------------------------------------
(***************************************************************************)
(* The text between two brackets.                                          *)
(***************************************************************************)
Item == SubSeq(pat, marker + 1, cursor)

\* How much of an item is scanned: up to its first character that may not be
\* there, a letter being needed in front.
Allowed(item) ==
    {n \in 0..Len(item) :
       \A i \in 1..n :
         /\ item[i] \in Alpha \cup Digit \cup {"-", "_", ":"}
         /\ i = 1 => item[i] \in Alpha}

IsValid(item) == Len(item) \in Allowed(item)

\* The colons that are seen before the scan ends; the last one counts.
Colons(item) == {i \in Allowed(item) \ {0} : item[i] = ":"}
LastColon(item) ==
    CHOOSE i \in Colons(item) : \A j \in Colons(item) : j <= i

\* Mutant of VariableOf: the first colon seen of all items counts.
VariableOfKept(item) ==
    IF Colons(item) = {} \/ variable # <<>> THEN variable
    ELSE SubSeq(item, 1, LastColon(item) - 1)

\* Without a colon the variable and the type of an earlier item stay.
VariableOf(item) ==
    IF Colons(item) = {} THEN variable
    ELSE SubSeq(item, 1, LastColon(item) - 1)

\* Mutant of RegexOf: the type begins after the colon.
RegexOfAfter(item) ==
    IF Colons(item) = {} THEN regex_str
    ELSE SubSeq(item, LastColon(item) + 1, Len(item))

\* The type begins with the colon.
RegexOf(item) ==
    IF Colons(item) = {} THEN regex_str
    ELSE SubSeq(item, LastColon(item), Len(item))

HasGroup(regex) ==
    \E i, j \in 1..Len(regex) : i < j /\ regex[i] = "(" /\ regex[j] = ")"

AddMatch(name, number) ==
    IF name \in DOMAIN matches THEN matches
    ELSE [n \in DOMAIN matches \cup {name} |->
            IF n = name THEN number ELSE matches[n]]

-----------------------------------------------------------------------------
(***************************************************************************)
(* The rounds of the loop.                                                 *)
(***************************************************************************)
More == cursor < Len(pat)
ch == pat[cursor + 1]

\* A character inside a bracket is passed over.
Inside(brackets, passed) ==
    /\ brackets > 0
    /\ bracketCount' = brackets
    /\ middle' = passed + 1
    /\ UNCHANGED <<parenCount, matchCount, route_str, prevCh>>

Parens(brackets) ==
    IF brackets = 0 /\ ch = "(" THEN parenCount + 1
    ELSE IF brackets = 0 /\ ch = ")" THEN parenCount - 1
    ELSE parenCount

\* A character outside of groups that means something to the regular
\* expression is escaped, unless it already is.
Special == {".", "+", "|", "#"}
Copied(parens) ==
    IF parens = 0 /\ prevCh # "\\" /\ ch \in Special
      THEN <<"\\", ch>>
      ELSE <<ch>>

\* Any other is copied; the parenthesis that closes a group counts it.
Outside(brackets, passed) ==
    /\ brackets <= 0
    /\ bracketCount' = brackets
    /\ middle' = passed
    /\ parenCount' = Parens(brackets)
    /\ matchCount' = IF brackets = 0 /\ ch = ")" /\ Parens(brackets) = 0
                       THEN matchCount + 1 ELSE matchCount
    /\ route_str' = route_str \o Copied(Parens(brackets))
    /\ prevCh' = ch

Round(brackets, passed) ==
    /\ Inside(brackets, passed) \/ Outside(brackets, passed)
    /\ cursor' = cursor + 1
    /\ UNCHANGED <<written, pat, variable, regex_str, matches>>

\* Mutant of OpenBracket: what was passed in the last bracket is not forgotten.
OpenBracketOn ==
    /\ More
    /\ parenCount = 0
    /\ ch = "{"
    /\ marker' = IF bracketCount = 0 THEN cursor + 1 ELSE marker
    /\ Round(bracketCount + 1, middle)

OpenBracket ==
    /\ More
    /\ parenCount = 0
    /\ ch = "{"
    /\ marker' = IF bracketCount = 0 THEN cursor + 1 ELSE marker
    /\ Round(bracketCount + 1, IF bracketCount = 0 THEN 0 ELSE middle)

Closes == parenCount = 0 /\ ch = "}"
ClosesItem == Closes /\ bracketCount = 1 /\ middle > 0

CloseBracket ==
    /\ More
    /\ Closes
    /\ ~ ClosesItem
    /\ Round(bracketCount - 1, middle)
    /\ UNCHANGED marker

OrdinaryChar ==
    /\ More
    /\ ~ (parenCount = 0 /\ ch \in {"{", "}"})
    /\ Round(bracketCount, middle)
    /\ UNCHANGED marker

\* Mutant of Parameter: the number is taken before the group is counted.
ParameterNumberedEarly ==
    /\ More
    /\ ClosesItem
    /\ IsValid(Item)
    /\ matchCount' = matchCount + 1
    /\ variable' = VariableOf(Item)
    /\ regex_str' = RegexOf(Item)
    /\ IF variable' # <<>> /\ regex_str' # <<>>
         THEN /\ route_str' = route_str \o (IF HasGroup(regex_str') THEN regex_str'
                                            ELSE <<"(">> \o regex_str' \o <<")">>)
              /\ matches' = AddMatch(variable', matchCount)
         ELSE /\ route_str' = route_str \o k_route
              /\ matches' = AddMatch(Item, matchCount)
    /\ bracketCount' = 0
    /\ cursor' = cursor + 1
    /\ UNCHANGED <<written, pat, parenCount, marker, middle, prevCh>>

\* The bracket that closes a valid item: a group, and the number it has.
Parameter ==
    /\ More
    /\ ClosesItem
    /\ IsValid(Item)
    /\ matchCount' = matchCount + 1
    /\ variable' = VariableOf(Item)
    /\ regex_str' = RegexOf(Item)
    /\ IF variable' # <<>> /\ regex_str' # <<>>
         THEN /\ route_str' = route_str \o (IF HasGroup(regex_str') THEN regex_str'
                                            ELSE <<"(">> \o regex_str' \o <<")">>)
              /\ matches' = AddMatch(variable', matchCount')
         ELSE /\ route_str' = route_str \o k_route
              /\ matches' = AddMatch(Item, matchCount')
    /\ bracketCount' = 0
    /\ cursor' = cursor + 1
    /\ UNCHANGED <<written, pat, parenCount, marker, middle, prevCh>>

\* Any other item is copied as it is; it counts as a group all the same, and
\* the colons before its first bad character are remembered.
NoParameter ==
    /\ More
    /\ ClosesItem
    /\ ~ IsValid(Item)
    /\ matchCount' = matchCount + 1
    /\ variable' = VariableOf(Item)
    /\ regex_str' = RegexOf(Item)
    /\ route_str' = route_str \o <<"{">> \o Item \o <<"}">>
    /\ bracketCount' = 0
    /\ cursor' = cursor + 1
    /\ UNCHANGED <<written, pat, parenCount, marker, middle, matches, prevCh>>

-----------------------------------------------------------------------------
(***************************************************************************)
(* What a script writes: literal text, parameters with or without a type,  *)
(* and groups of its own.                                                  *)
(***************************************************************************)
Literal(text) == [kind |-> "literal", text |-> text, name |-> <<>>]
Param(name) == [kind |-> "param", text |-> <<>>, name |-> name]
Typed(name, type) == [kind |-> "typed", text |-> type, name |-> name]
Group(text) == [kind |-> "group", text |-> text, name |-> <<>>]

TextOf(item) ==
    CASE item.kind = "literal" -> item.text
      [] item.kind = "param"   -> <<"{">> \o item.name \o <<"}">>
      [] item.kind = "typed"   -> <<"{">> \o item.name \o <<":">> \o item.text
                                    \o <<"}">>
      [] item.kind = "group"   -> <<"(">> \o item.text \o <<")">>

Joined(items, Part(_)) ==
    LET upTo[n \in 0..Len(items)] ==
          IF n = 0 THEN <<>> ELSE upTo[n - 1] \o Part(items[n])
    IN  upTo[Len(items)]

Init ==
    /\ \/ /\ pat \in Patterns
          /\ written = <<>>
       \/ /\ written \in ItemLists
          /\ pat = Joined(written, TextOf)
    /\ cursor = 0
    /\ bracketCount = 0 /\ parenCount = 0
    /\ marker = 0 /\ middle = 0
    /\ matchCount = 0
    /\ variable = <<>> /\ regex_str = <<>>
    /\ route_str = <<>>
    /\ matches = [n \in {} |-> 0]
    /\ prevCh = "none"

Next ==
    \/ OpenBracket
    \/ CloseBracket
    \/ OrdinaryChar
    \/ Parameter
    \/ NoParameter

Spec == Init /\ [][Next]_vars

-----------------------------------------------------------------------------
(***************************************************************************)
(* Properties.                                                             *)
(***************************************************************************)
Done == ~ More

\* The counters and offsets are numbers, each parameter has a number, and a
\* remembered name comes with a type: the two strings are set together.
TypeOK ==
    /\ cursor \in 0..Len(pat)
    /\ bracketCount \in Int /\ parenCount \in Int
    /\ marker \in Nat /\ middle \in Nat /\ matchCount \in Nat
    /\ \A n \in DOMAIN matches : matches[n] \in Nat
    /\ variable = <<>> <=> regex_str = <<>>

\* Whatever the pattern, while a bracket is open the marker is just behind the
\* bracket that opened first, and `middle' has counted what follows: the item
\* that is cut out of the pattern when it closes lies between two brackets.
ItemBetweenBrackets ==
    bracketCount > 0 =>
        /\ marker \in 1..cursor
        /\ pat[marker] = "{"
        /\ middle = cursor - marker + 1

\* Whatever the pattern, two parameters never get the same group, and no
\* parameter a group that has not been counted.
NumbersDiffer ==
    \A m, n \in DOMAIN matches :
        /\ matches[n] \in 1..matchCount
        /\ m # n => matches[m] # matches[n]

\* The items that a pattern may be put together from.  Brackets and parentheses
\* make items, so literal text has none, and those of a group match; a backslash
\* escapes the character behind it, which is part of the same text; a name is one
\* that the scan of an item takes, and so is a type.
NameChars == Alpha \cup Digit \cup {"-", "_"}
IsName(s) == s # <<>> /\ s[1] \in Alpha /\ \A i \in 1..Len(s) : s[i] \in NameChars

Count(text, c, n) == Cardinality({i \in 1..n : text[i] = c})
Depth(text, n) == Count(text, "(", n) - Count(text, ")", n)

Escapes(text) ==
    \A i \in 1..Len(text) :
        text[i] = "\\" => i < Len(text) /\ text[i + 1] \notin {"\\", "(", ")", "Q"}

WellWritten(item) ==
    /\ item.kind = "literal" =>
         /\ item.text # <<>>
         /\ Escapes(item.text)
         /\ \A i \in 1..Len(item.text) : item.text[i] \notin {"{", "}", "(", ")"}
    /\ item.kind \in {"param", "typed"} => IsName(item.name)
    /\ item.kind = "typed" => \A i \in 1..Len(item.text) : item.text[i] \in NameChars
    /\ item.kind = "group" =>
         /\ Escapes(item.text)
         /\ \A n \in 0..Len(item.text) : Depth(item.text, n) >= 0
         /\ Depth(item.text, Len(item.text)) = 0

\* A special character of literal text is escaped unless it already is.
Escaped(k, j) ==
    LET text == written[k].text
    IN  IF text[j] \in Special /\ ~ (j > 1 /\ text[j - 1] = "\\")
          THEN <<"\\", text[j]>> ELSE <<text[j]>>

EscapedText(k) ==
    LET At(j) == Escaped(k, j)
    IN  Joined([j \in 1..Len(written[k].text) |-> j], At)

RegexOfItem(k) ==
    LET item == written[k]
    IN  CASE item.kind = "literal" -> EscapedText(k)
          [] item.kind = "param"   -> k_route
          [] item.kind = "typed"   -> <<"(", ":">> \o item.text \o <<")">>
          [] item.kind = "group"   -> TextOf(item)

Named == {i \in 1..Len(written) : written[i].kind \in {"param", "typed"}}

\* The groups of an item are the parentheses that its expression opens, and the
\* number of a group is how many have been opened up to it.
GroupsOf(item) ==
    IF item.kind \in {"param", "typed"} THEN {1}
    ELSE {n \in 1..Len(TextOf(item)) : TextOf(item)[n] = "("}
GroupNumber(i) == Cardinality(UNION {{j} \X GroupsOf(written[j]) : j \in 1..i})

\* An item without groups inside a group, and in which each opening parenthesis
\* is one of a group with a number: none is part of a character class or of a
\* group of another sort.
Flat(item) ==
    /\ item.kind \in {"literal", "group"} =>
         \A n \in 1..Len(item.text) : item.text[n] \notin {"(", ")", "["}
    /\ item.kind = "group" /\ item.text # <<>> => item.text[1] \notin {"?", "*"}

\* (A parameter without a type that comes after one with a type is left out:
\* it takes over that one's name and type.)
TypedLast ==
    \A i, j \in Named :
        i < j => ~ (written[i].kind = "typed" /\ written[j].kind = "param")

\* A pattern put together from such items gives the items' regular expressions
\* one after the other, with each special character of literal text escaped once;
\* and each parameter has the number of its group among the groups that the
\* expression really has, as long as no group in front of it holds another (the
\* loop counts such groups as one).  A name that comes twice is the first.
AsWritten ==
    /\ Done /\ written # <<>> /\ TypedLast
    /\ \A k \in 1..Len(written) : WellWritten(written[k])
    => /\ route_str = Joined([k \in 1..Len(written) |-> k], RegexOfItem)
       /\ DOMAIN matches = {written[i].name : i \in Named}
       /\ \A i \in Named :
            /\ \A j \in Named : written[j].name = written[i].name => i <= j
            /\ \A j \in 1..i : Flat(written[j])
            => matches[written[i].name] = GroupNumber(i)

=============================================================================
