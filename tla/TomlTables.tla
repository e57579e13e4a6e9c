----------------------------- MODULE TomlTables -----------------------------
(***************************************************************************)
(* The tables of the TOML parser (tomlparser.php): what keys and headers   *)
(* do to the nested arrays of a document.                                  *)
(*                                                                         *)
(* PHP arrays reached through references are nodes of `mem', and a node    *)
(* number is a reference.  Keys are names, never integers: the integer     *)
(* keys of an array are its items, which `$base[] = []' appends.  What an  *)
(* array has under a key is Absent, Scalar (a value that is no array) or a *)
(* node; a list value is a node of its own, whose contents nothing here    *)
(* looks at.  The text arrives token by token: each round of the loop of   *)
(* tablePath is an action, named for what it finds.                        *)
(***************************************************************************)
EXTENDS Integers, Sequences, FiniteSets

CONSTANTS
    Keys,       \* the names in use
    MaxNodes,   \* bound: arrays made, over all documents
    MaxParts    \* bound: keys in one header

ASSUME BoundsAssumption == MaxNodes \in Nat /\ MaxParts \in Nat

VARIABLES
    mem,        \* the arrays: [entry, item, list] for each node
    root,       \* the node of the document, 0 before the first
    table,      \* the node that keys are added to
    tags,       \* $table_parts: path -> [aot, implicit, n, base]
    header,     \* the local variables of tablePath
    status,     \* "idle", "error"; or parsing: "line", "header"
    headed      \* history: the nodes that a header has ended at

vars == <<mem, root, table, tags, header, status, headed>>

Absent == -1
Scalar == 0
Node == 1..Len(mem)

Array == [entry : [Keys -> Nat \cup {Absent}], item : Seq(Nat), list : BOOLEAN]
Tag == [aot : BOOLEAN, implicit : BOOLEAN, n : Nat, base : Nat]

Header == [path : Seq(Keys), ref : Nat, isAOT : BOOLEAN, aotLength : Nat,
           dotCount : {0, 1}, hitNew : BOOLEAN]

EmptyArray == [entry |-> [k \in Keys |-> Absent], item |-> <<>>, list |-> FALSE]
ListValue == [EmptyArray EXCEPT !.list = TRUE]

NoHeader == [path |-> <<>>, ref |-> 0, isAOT |-> FALSE, aotLength |-> 0,
             dotCount |-> 0, hitNew |-> FALSE]

-----------------------------------------------------------------------------
(***************************************************************************)
(* Arrays and tags.                                                        *)
(***************************************************************************)
Room == Len(mem) < MaxNodes
Fresh == Len(mem) + 1

\* The heap m with `value' under key k of array n, or as its last element.
WithEntry(m, n, k, value) == [m EXCEPT ![n].entry[k] = value]
WithItem(m, n, value) == [m EXCEPT ![n].item = Append(@, value)]

\* The tag of a path; a path without one reads as null, whose fields are falsy.
TagOf(path) ==
    IF path \in DOMAIN tags THEN tags[path]
    ELSE [aot |-> FALSE, implicit |-> FALSE, n |-> 0, base |-> 0]

WithTag(T, path, tag) ==
    [p \in DOMAIN T \cup {path} |-> IF p = path THEN tag ELSE T[p]]

\* The last element of an array of tables.
endRef(tag) == mem[tag.base].item[tag.n]

\* Mutant of Counted: the element is not counted.
CountedNot(tag) == tag

\* Append an element to an array of tables: `mem' and the tag afterwards.
Elements(tag) ==
    Append(WithItem(mem, tag.base, Fresh), EmptyArray)
Counted(tag) == [tag EXCEPT !.n = @ + 1]

-----------------------------------------------------------------------------
(***************************************************************************)
(* Documents and key-value lines.                                          *)
(***************************************************************************)
Init ==
    /\ mem = <<>> /\ root = 0 /\ table = 0 /\ tags = <<>>
    /\ header = NoHeader /\ status = "idle" /\ headed = {}

\* parse: a fresh root; the tags of the document before stay.
Parse ==
    /\ status \in {"idle", "error"} /\ Room
    /\ mem' = Append(mem, EmptyArray)
    /\ root' = Fresh /\ table' = Fresh
    /\ status' = "line"
    /\ UNCHANGED <<tags, header, headed>>

EndOfText ==
    /\ status = "line"
    /\ status' = "idle"
    /\ UNCHANGED <<mem, root, table, tags, header, headed>>

\* An exception leaves parse; what the document has got so far stays.
Refuse ==
    /\ status' = "error" /\ header' = NoHeader
    /\ UNCHANGED <<mem, root, table, tags, headed>>

\* A token that the line or the header cannot go on with, or a value in error;
\* an inline table is always one, as inlineTable names a missing constant.
BadToken == status \in {"line", "header"} /\ Refuse

\* Mutant of Taken: a key may be given again when it holds an array.
TakenByScalar(k) == mem[table].entry[k] = Scalar

Taken(k) == mem[table].entry[k] # Absent

DuplicateKey(k) == status = "line" /\ Taken(k) /\ Refuse

KeyValue(k) ==
    /\ status = "line" /\ ~Taken(k)
    /\ \/ mem' = WithEntry(mem, table, k, Scalar)
       \/ /\ Room
          /\ mem' = Append(WithEntry(mem, table, k, Fresh), ListValue)
    /\ UNCHANGED <<root, table, tags, header, status, headed>>

-----------------------------------------------------------------------------
(***************************************************************************)
(* tablePath, one token at a time.                                         *)
(***************************************************************************)
OpenHeader ==
    /\ status = "line"
    /\ status' = "header"
    /\ header' = [NoHeader EXCEPT !.ref = root]
    /\ UNCHANGED <<mem, root, table, tags, headed>>

\* "[": the segments up to the matching "]" are arrays of tables.
OpenBracket ==
    /\ status = "header"
    /\ ~(header.dotCount < 1 /\ header.path # <<>>) /\ ~header.isAOT
    /\ header' = [header EXCEPT !.isAOT = TRUE]
    /\ UNCHANGED <<mem, root, table, tags, status, headed>>

\* "]" of an inner bracket.
CloseBracket ==
    /\ status = "header" /\ header.isAOT /\ header.aotLength > 0
    /\ header' = [header EXCEPT !.isAOT = FALSE, !.aotLength = 0]
    /\ UNCHANGED <<mem, root, table, tags, status, headed>>

\* Mutant of Dot: dots are counted but any number of them is accepted.
DotRepeated ==
    /\ status = "header"
    /\ header' = [header EXCEPT !.dotCount = @ + 1]
    /\ UNCHANGED <<mem, root, table, tags, status, headed>>

Dot ==
    /\ status = "header" /\ header.dotCount = 0
    /\ header' = [header EXCEPT !.dotCount = 1]
    /\ UNCHANGED <<mem, root, table, tags, status, headed>>

\* The same tokens where they may not be.
Misplaced ==
    /\ status = "header"
    /\ \/ header.dotCount < 1 /\ header.path # <<>>     \* "[" or a key
       \/ header.isAOT                                  \* "["
       \/ header.isAOT /\ header.aotLength = 0          \* "]"
       \/ header.dotCount > 0                           \* "."
    /\ Refuse

\* A key where one may be.
AtKey ==
    /\ status = "header" /\ Len(header.path) < MaxParts
    /\ header.path # <<>> => header.dotCount = 1

Path(k) == Append(header.path, k)
Behind(k) == mem[header.ref].entry[k]

\* The key holds a value that is no array.
KeyOfScalar(k) == AtKey /\ Behind(k) = Scalar /\ Refuse

\* Where the path goes on from an array that is there: at the last element if
\* the tag says it is an array of tables.
Onward(tag, array) == IF tag.aot /\ ~tag.implicit THEN endRef(tag) ELSE array

KeyOfArray(k) ==
    /\ AtKey /\ Behind(k) \in Node
    /\ LET tag == TagOf(Path(k)) IN
       header' = [header EXCEPT
                    !.path = Path(k), !.dotCount = 0,
                    !.ref = Onward(tag, Behind(k)),
                    !.aotLength = IF tag.aot THEN @ + 1 ELSE @]
    /\ UNCHANGED <<mem, root, table, tags, status, headed>>

\* Mutant of Branch: the tag refers to the array that the new one is in.
BranchOutside(path) ==
    IF path \in DOMAIN tags THEN tags[path]
    ELSE [aot |-> header.isAOT, implicit |-> TRUE, n |-> 0, base |-> header.ref]

\* The tag of a new array: the one its path already has, or a new one.
Branch(path) ==
    IF path \in DOMAIN tags THEN tags[path]
    ELSE [aot |-> header.isAOT, implicit |-> TRUE, n |-> 0, base |-> Fresh]

KeyOfNothing(k) ==
    /\ AtKey /\ Behind(k) = Absent /\ Room
    /\ mem' = Append(WithEntry(mem, header.ref, k, Fresh), EmptyArray)
    /\ tags' = WithTag(tags, Path(k), Branch(Path(k)))
    /\ header' = [header EXCEPT
                    !.path = Path(k), !.dotCount = 0, !.ref = Fresh,
                    !.hitNew = TRUE,
                    !.aotLength = IF header.isAOT THEN @ + 1 ELSE @]
    /\ UNCHANGED <<root, table, status, headed>>

\* The closing "]", or the end of the text in its place.
AtEnd == status = "header"
LastTag == TagOf(header.path)

EmptyPath == AtEnd /\ header.path = <<>> /\ Refuse

\* The path was there before: neither an array of tables nor made in passing.
Duplicate ==
    /\ AtEnd /\ header.path # <<>>
    /\ ~header.hitNew /\ ~LastTag.aot /\ ~LastTag.implicit

DuplicatePath == Duplicate /\ Refuse

\* The header is done, and keys go to array n.
EndAt(n) ==
    /\ table' = n
    /\ headed' = headed \cup {n}
    /\ status' = "line" /\ header' = NoHeader
    /\ UNCHANGED root

\* Mutant of EndTable: only a new table is recorded as given.
EndTableForgets ==
    /\ AtEnd /\ header.path # <<>> /\ ~LastTag.aot
    /\ header.hitNew \/ LastTag.implicit
    /\ tags' = WithTag(tags, header.path,
                       [LastTag EXCEPT !.implicit = ~header.hitNew])
    /\ EndAt(header.ref)
    /\ UNCHANGED mem

\* A plain table that is new or was made in passing.
EndTable ==
    /\ AtEnd /\ header.path # <<>> /\ ~LastTag.aot
    /\ header.hitNew \/ LastTag.implicit
    /\ tags' = WithTag(tags, header.path,
                       [LastTag EXCEPT !.implicit = FALSE])
    /\ EndAt(header.ref)
    /\ UNCHANGED mem

\* An array of tables: a new element, whether or not the header has [[ ]].
EndElement ==
    /\ AtEnd /\ header.path # <<>> /\ LastTag.aot /\ Room
    /\ mem' = Elements(LastTag)
    /\ tags' = WithTag(tags, header.path,
                  [Counted(LastTag) EXCEPT !.implicit = @ /\ ~header.hitNew])
    /\ EndAt(Fresh)

Next ==
    \/ Parse \/ EndOfText \/ BadToken
    \/ OpenHeader \/ OpenBracket \/ CloseBracket \/ Dot \/ Misplaced
    \/ EmptyPath \/ DuplicatePath \/ EndTable \/ EndElement
    \/ \E k \in Keys :
         \/ DuplicateKey(k) \/ KeyValue(k)
         \/ KeyOfScalar(k) \/ KeyOfArray(k) \/ KeyOfNothing(k)

Spec == Init /\ [][Next]_vars

-----------------------------------------------------------------------------
(***************************************************************************)
(* Properties.                                                             *)
(***************************************************************************)
\* Arrays, tags and the header are well formed, and every reference leads to
\* an array that was made.
TypeOK ==
    /\ mem \in Seq(Array) /\ root \in Nat /\ table \in Nat
    /\ status \in {"idle", "error", "line", "header"} /\ headed \subseteq Node
    /\ \A n \in Node :
         /\ \A k \in Keys : mem[n].entry[k] \in Node \cup {Absent, Scalar}
         /\ \A i \in DOMAIN mem[n].item : mem[n].item[i] \in Node
    /\ \A p \in DOMAIN tags :
         p \in Seq(Keys) /\ tags[p] \in Tag /\ tags[p].base \in Node
    /\ header \in Header /\ header.ref \in Node \cup {0}
    /\ status \in {"line", "header"} => root \in Node /\ table \in Node
    /\ (status = "header") = (header.ref # 0)

\* The count of a tag is the number of elements of its array, and an array of
\* tables that a header went through has one: endRef, which would silently make
\* an element if there was none, always gives the last (TomPartTag, tablePath).
LastElementExists ==
    \A p \in DOMAIN tags :
      /\ tags[p].n = Len(mem[tags[p].base].item)
      /\ tags[p].aot /\ ~tags[p].implicit => tags[p].n > 0

\* The keys of a path lead from the root of the document to array n, each to an
\* array under it.
Leads(path, n) ==
    \E at \in [0..Len(path) -> Node] :
        /\ at[0] = root /\ at[Len(path)] = n
        /\ \A i \in 1..Len(path) : mem[at[i - 1]].entry[path[i]] = at[i]

Plain(path) == \A n \in 1..Len(path) : ~TagOf(SubSeq(path, 1, n)).aot

\* In the first document of a parser, outside arrays of tables: the tag of a
\* path is about the array at that path, and so is the header that names it,
\* in whatever order tables, tables in passing and lists come (tablePath).
PathsLead ==
    root = 1 =>
      /\ \A p \in DOMAIN tags :
           Plain(SubSeq(p, 1, Len(p) - 1)) => Leads(p, tags[p].base)
      /\ status = "header" /\ Plain(header.path) =>
           Leads(header.path, header.ref)

\* Whatever a line or a header does, correct or in error, in this document or a
\* later one, it takes nothing away: entries stay as they were given, and
\* elements stay in their places (keyValue's isset, tablePath).
KeepsEntries ==
    [][\A n \in Node :
         /\ \A k \in Keys :
              mem[n].entry[k] # Absent => mem'[n].entry[k] = mem[n].entry[k]
         /\ \A i \in DOMAIN mem[n].item :
              i \in DOMAIN mem'[n].item /\ mem'[n].item[i] = mem[n].item[i]]_vars

\* No two headers define one table: "won't allow this to happen again"
\* (tablePath, line 760), not even when tags outlive their document.
DefinedOnce ==
    [][status = "header" /\ status' = "line" => table' \notin headed]_vars

\* "Table part created earlier, allow if it was just implicit creation"
\* (tablePath, line 758): a table that no header ended at is not refused.
ImplicitAllowed ==
    Duplicate => mem[header.ref].list \/ header.ref \in headed

=============================================================================
