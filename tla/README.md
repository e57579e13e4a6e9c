# TLA+ specifications of php-expc

php-expc ("phiz") is a PHP extension written in C: arrays of C numbers
(`Carray`, `Csu32`), UTF-8 strings read character by character (`Csu8`), a regular expression
with the captures of its last match (`Cregx`), and some string functions. `tomlparser/` is a TOML parser in PHP
that was written to exercise them.

PHP runs a script on one thread, so nothing in this code races. What is hard
is different: *sequences* of legal calls that reach a state nobody wrote a test
for, script code that runs in the middle of a C operation (loop bodies,
overridden methods, destructors), two iterators over one object, and the counts
of references that decide when memory is given back.

## Components

| Component | Source | State | Operations | Correct when |
|---|---|---|---|---|
| Growable block (`garray`) | `src/carray_obj.c`, `.h` | pointer to a block, size, capacity, table of element functions | alloc, free, reserve, resize, init/dtor/copy elements, `next_cap_mark` | size never exceeds the block; elements survive growth; the growth table is searched correctly |
| `Carray` class | `phiz_carray.c` | one `garray` per object, the methods its class overrides | construct, resize, reserve, `[]=`, `[i]=`, `[i]`, `unset`, `sub`, `clone`, `toArray`, free | an index that passes the check is inside the block; an element reads as what was written to it; each reference of a mixed array is taken and released once; accesses end |
| Typed element tables | `src/cast_macro.c` | none (one instance of the macros per C type) | get, set, init, copy for ten types | what is accepted fits the bytes and reads back unchanged |
| Iterators (`carray_quickit`) | `src/carray_obj.c`, `phiz_carray.c` | index, reference to the array, last result | rewind, valid, current, key, next, dtor | fetches inside the block while the body resizes; every loop ends; the array outlives its loops |
| `Csu32` | `phiz_carray.c` 36-101 | a `Carray` of code points | from UTF-8, to UTF-8 | inverse of each other on valid text |
| UTF-8 codec | `src/ucode8.c` | none | decode forward, encode | consumes one character, never past the end; decoding undoes encoding |
| `Csu8`, cursor `str8` | `phiz_str8.c`, `src/str8_obj.c` | target string; a cursor in each iterator | construct, getIterator, rewind, next, valid, current, key | the cursor is on a character inside the string; a stopped iterator stays; string and object outlive whoever reads them |
| `Cregx` | `phiz_cregx.c` | pattern, flags, captures | construct, setExpr, `__toString`, match, captures, clear, clone, free | captures are there for whoever holds them and gone when nobody does; the pattern too |
| Route patterns | `php_phiz.c` 123-306 | local: brackets open, pending name and regex, counters | `route_extract_params` | balanced brackets, one parameter per placeholder |
| Word case | `php_phiz.c` 310-408 | local | `str_camel`, `str_uncamel` | one undoes the other on words of its style |
| `str_utf8c` | `php_phiz.c` 436-461 | none | one character at an offset | agrees with the codec |
| TOML parser | `tomlparser/tomlparser.php` | text and offset, current token, root array, current table, tags of the paths seen | lexer, lists, inline tables, table paths, values | keys set once, every table where its path says, all text consumed |
| `Time24` | `tomlparser/Time24.php` | seconds and microseconds | parse, set, format | parts in range |
| Registration, stubs | `phiz_exceptions.c`, `*_arginfo.h`, `config.m4` | none | class registration | generated or I/O |

How they meet: `Carray` embeds a `garray` and calls it for every change;
`carray_etype_ctor` picks the element table, and through it the iterator
functions; `Csu8` and `Csu32` read through the cursor of `str8_obj.c`, which calls the
codec, as `str_utf8c` does; the TOML parser calls
`str_utf8c` and PHP's own regular expressions. Scripts hold references to
objects and values, iterators hold references to arrays, mixed arrays hold
references to values.

The hazards of the code, at their lines, are listed in `PROJECT.json` with the
properties that watch each of them, or with the reason why none does.

## Modules

    Capacity ---- CapSearch            the growth table, and its binary search
       |             LoopProofs
    Garray                             the block and every pca_* / gen_resize operation
       |  \          GarrayProofs
       |   CarrayForeach               foreach over one array
       |             CarrayForeachProofs
       |   CarrayAccess -- CastTables  values, overridden methods, destructors
       |             CarrayAccessProofs
    Carray                             the class and the reference counts
       |  \          CarrayProofs
       |   CarrayClaims                two claims of the source it does not keep
    CarrayList -- ArrayList            refinement of the abstract lists

    Ucode8                             the codec
       |
    Str8     WellFormed  Garray        the cursor; what UTF-8 is; the block
         \       |       /
           Utf8Readers                 Csu8 iterators, Csu32, str_utf8c
                     Utf8ReadersProofs
    RouteParams  StrCase               route_extract_params; the case functions
          \       /
        PhizFunctions                  a script that calls one of them
                     LoopProofs        (the same module as above)

             Zval                      values with counts, and variables
            /    \
        Cregx    Csu8                  who holds what: a pattern, captures; a string
            \    /
            Owners                     scripts with both, sharing strings
                     OwnersProofs

    TomlTables                         keys and table headers of the TOML parser
                     TomlTablesProofs

- **Capacity** is what `next_cap_mark` means: the least mark of the table that
  suffices, else `floor(1.5*(size-1))`. **CapSearch** is how it finds it, with
  one action per branch of the loop and the variables of the C function.
- **Garray** has the C structure as a record and each C function as an operator
  from record to record. `extent` is the one field the C code does not store:
  how many elements the allocator really gave. It is what `size` has to stay
  below. `slot` is the memory itself; `Garbage` is memory nobody has written,
  `Blank` is 0 or null. Two kinds of element stand for the ten number types and
  for zvals: they differ in control (only zvals are destroyed and counted).
- **Carray** has one action per method or handler that changes state. `rc` is
  the reference count of each value, `user` the share of it that variables of
  the script account for, and `ub` a history variable that becomes TRUE when an
  uninitialised zval is copied or released. `MaxUser` and `MaxRefs` bound the
  counts: a freed array leaks what it holds, so counts grow without limit in the
  code.
- **ArrayList** is the promise to a script: lists that grow, shrink and change
  one element at a time. **CarrayList** maps arrays to lists by forgetting
  blocks and capacities. The abstract lists had to be given one reservation,
  `Forget`: an array *made with elements* by the constructor, `clone` or `sub`
  has a block but capacity 0, and `pca_reserve` takes a fresh block for it, so
  its first growth loses the contents. Likewise a packed list is never cut to
  nothing, since `gen_resize(0)` only resets the size of mixed arrays.
- **CarrayForeach** is the Zend VM driving the iterator functions, two loops
  over one array, with a script that may resize, push, reserve, break, or unset
  its last variable between any two steps. The order move, check, fetch (with
  no move the first time) is the VM's and is marked external.
- **CarrayClaims** states two things the source says of itself, as action
  properties of Carray.
- **CastTables** is the table of element types: what each accepts (`SetError`),
  the bytes it keeps (`Stored`, modulo the width of the type) and the value it
  gives back (`Loaded`). Doubles are counted in steps of which every second is a
  float, so that rounding to a float is there without floating-point numbers;
  NaN, which every comparison lets pass, is not.
- **CarrayAccess** is what a script does to one array through the object
  handlers: an access is asked for, goes to the handler, from there to a method
  of the class if that is overridden, and back to the handler if that method
  calls the one it overrides. Assignments to a mixed array release the old value
  first: if that runs a destructor, the assignment is `pending` while the script
  goes on, and ends at the address it had. `stale` is TRUE when the block has
  moved meanwhile; `broken` says that undefined behaviour has happened. `list`
  is a history variable with what was last written. An iterator in the hands of
  the script checks nothing by itself; `checked` says that the last thing asked
  of it was `valid()`, with the answer yes, and that no resize since has cut its
  element off.
- **Ucode8** has the codec as operators on sequences of bytes: `Code` is what
  ends up in `*uc`, `Used` the return value. The decoder never looks at the top
  bits of a byte that is not the first, and leaves `*uc` alone for a first byte
  from 0x80 to 0xC1: `before` stands for what it held, which in `str_utf8c` is a
  variable nobody has written. The comment on `*uc` (`ucode8.c` line 17) promises
  a code or INVALID_CHAR; the types of `Utf8Readers` admit any value instead.
- **WellFormed** is not translated from the code: it is table 3-7 of the Unicode
  standard, the reference for the three readers. A text is cut at its ends and
  before each byte that continues nothing (`Cuts`), and is in UTF-8 when each
  piece is a character; so the character at a cut is defined without going
  through those before it.
- **Str8** has `struct str8_obj` as a record, and **Utf8Readers** puts a script
  around it: a Csu8 iterator that may be rewound and moved in any order, a Csu32
  object that is filled from the text, appended to and printed, and calls of
  `str_utf8c` that step through the text by the length they return. The Csu32
  array is a block of `Garray`, so its growth is the real one. Each handler is
  one action; the loops inside `__construct` and `__toString` are recursive
  functions over the rounds.
- **RouteParams** is the loop of `route_extract_params`, one action per kind of
  round. The variables are those of the C function; `written` is a history
  variable with the items a pattern was put together from, so that `AsWritten`
  can compare what the loop gives with what each item should give: of well
  written items (`WellWritten`: no bracket or parenthesis in literal text, those
  of a group match, a backslash escapes a character of the same item, names and
  types that the scan takes), since one that is not spills over into the next.
  `GroupNumber` counts the groups that the expression really has. The loop counts
  a group with groups inside as one, and an item that is no parameter as one, so
  the number it gives to a parameter behind such an item is not that of its
  group: in `((a).){a}` it is 2, and the group the third. `AsWritten` claims the
  expression for all well written items, and the numbers where each group in
  front holds no other (`Flat`). Three more things the model shows of the code and
  no document contradicts: after a parameter with a type, one without takes over
  its name and type; the type is copied with its colon, and only letters, digits,
  `-`, `_` and `:` are allowed in it; and `prevCh` is the character before the
  bracket, not the bracket, for the character behind it.
- **StrCase** has the loops of `phiz_camel` and `phiz_uncamel`, one action per kind
  of round. A script gives the result of one to the other; **PhizFunctions** lets
  a script call this or `route_extract_params`, which share nothing.

- **Zval** is the part of the Zend engine that `Cregx` and `Csu8` lean on: a heap
  of values with counts, where using a freed one is recorded in `broken`, and
  how many variables of the script hold each. **Cregx** and **Csu8** have one
  action per method, handler and iterator function that touches a value; what a
  pattern matches and what an iterator reads are not in them. Four history
  variables say what the code has given away: patterns that were released
  without having been counted (`given`), strings that `__toString` of Csu8 has
  handed out uncounted (`loaned`), how often `captures` has handed out an array
  (`taken`), and arrays whose object was freed with them in it (`parted`).
  **Owners** lets objects of both classes share strings, so that a count that one
  lowers too far is missed by the other.

- **TomlTables** is what key-value lines and table headers do to the nested
  arrays of a document. PHP's references become node numbers of a heap, `tags` is
  `$table_parts`, and each round of the loop of `tablePath` is an action. Keys
  are names without brackets, and no integers. `Parse` makes a fresh root and keeps
  the tags, as `parse` does; when the tag of a path is older than the array at
  that path, new elements go to the old array, even one of a document that was
  returned long ago, which `PathsLead` therefore excludes and `ImplicitAllowed`
  shows. A header that adds to an array of tables need not have `[[ ]]`, one that
  ends with the text needs no bracket at all, and a path may lead through a list.

Modules whose name begins with MC give the constants their small values.
Definitions marked "Mutant of" are plausible mistakes, kept beside the
definition they would replace: each property is known to fail under one.

## Runs

| Run | Properties | What it shows |
|---|---|---|
| `capsearch` | SearchTypeOK, Brackets, ReturnsNextCapMark, Returns | the loop over the real table of 20 marks, for sizes 1 to 40, every mark and its neighbours, and past the table |
| `carray` | TypeOK, SizeWithinBlock, RefsCovered, KeepsElements, ImplementsList | two arrays, mixed or of numbers, through and past a table of one mark, with a counted value and, for numbers, one the type refuses: every sequence of calls keeps indices in the block and releases no reference twice |
| `access` | ReadsBack, CheckedFetch, AccessEnds | one array of each type, and of classes that override one method: reading gives what was written, in the middle of an assignment too; checked iterators stay inside; accesses end |
| `foreach` | TypeOK, FetchInsideBlock, HeldWhileIterated, VisitsStable, LoopEnds | two loops and bodies that change the array |
| `utf8readers` | TypeOK, OffsetsInside, ReadsText, HoldsText, WalksText, NextFollows, PrintsWhatItHolds, WalkEnds | well-formed and ill-formed texts through the three readers |
| `phizfunctions` | TypeOK, ItemBetweenBrackets, NumbersDiffer, AsWritten, ComesBack | arbitrary short patterns, and patterns put together from items, with groups inside groups and escaped characters; short words there and back |
| `owners` | TypeOK, CapturesValid, CapturesReleased, TextHeld, ObjectHeld | captures, strings and objects are there for whoever holds them, except where the code gave them away |
| `tomltables` | TypeOK, LastElementExists, PathsLead, KeepsEntries, DefinedOnce | several documents of headers and lines by one parser, with any errors |
| `claim_tags` | ImplicitAllowed | violated: a table made in passing is refused because an earlier document defined its path |
| `claim_assert` | FreeAsserts | violated: `pca_is_empty` asserts that a block means elements; reserve, then free |
| `claim_dtor` | FreeDestroysElements | violated: a mixed array is freed without destroying its elements |
| `claim_get` | GetReturns | violated: an `offsetGet` that calls the one it overrides is called by it again, for ever |

Three properties hold with exceptions that the properties name, each of them
something the code does and no document denies. `CapturesValid`: a second call of
`captures()` for one match hands out a reference that was never counted.
`CapturesReleased`: captures that nobody asked for keep the reference that was
counted for the asker, and freeing the object lowers counts without freeing.
`TextHeld`: a pattern is stored without being counted and released all the same,
and `__toString` of Csu8 hands the string out uncounted.

**Bounds.** The C code distinguishes: size 0 or not, capacity 0 or not, size
below, at and above the capacity, a request below the table, on a mark and past
it. Sizes to 3 with one mark at 2 reach each of them: 1 is below the mark, 2 on
it and 3 past the table, where `floor(1.5*(n-1))` is 3, the tightest the rounding
gets. Two objects are what `clone` and `sub` need; objects are symmetric. One
counted value suffices for the counts, which are kept per value; packed arrays
use two, one of which the type refuses. `MCBound` has arrays of one kind
at a time, and arrays of numbers only while no value is counted. The counts need `MaxRefs` 3: one variable and two
elements of one value. Nothing in these modules depends on the true marks, which
`capsearch` checks on their own, and the theorems hold for every table.

The texts of `utf8readers` are every string of up to two bytes over nine bytes,
one for each range the decoder distinguishes, strings of up to three bytes that
begin a character of each length (so that each is cut off at every place), every
pair of the first and last characters of each length, and ill-formed sequences
of four bytes: overlong, past 0x10FFFF, not a first byte, a bad continuation.
INVALID_CHAR is 2147483647 there, since TLC's numbers have 31 bits; the theorems
only use that it is past the last code point. The growth table is 1, 2, so that
a Csu32 of three codes has grown on a mark and past the table. `phizfunctions`
has all patterns of up to five of seven characters (each one that the loop tells
apart, a letter and one special character), three brackets in odd forms, and
three items of each kind; and all words of up to four of two letters, a capital
of each, a digit and both separators, with four separators to pass, one of which
is a letter.

`access` has one array of up to two elements, with marks 1 and 2, so that every
append may move the block. A byte has one bit: the eight integer types then have
ranges from two values to 256, and each is given its bounds, their neighbours
and a value of another type. (TLC's numbers are too small for 64 bits; the
theorem holds for any width.) A class overrides at most one method, and only of
a byte array: what a handler does before it looks for an override is the same
for all. One destructor runs at a time, and none for what a resize cuts off;
the array is not freed while one runs.

`owners` has one string besides a literal, two arrays of captures, two Cregx,
one Csu8 and one iterator: a clone and a second match need two of the first. A
script has at most two variables with one value. Counts are numbers below 6 for
the 2^32 of the code, so that one that goes below 0 is at the top, and a
variable is not copied at a count of 3, above which only the code itself counts.
Captures and a Csu8 are not there at the same time (`MCApart`): no value is
shared between them.

`tomltables` makes up to eight arrays over all documents, with headers of up to
two keys: enough for an array of tables within the second element of another,
which makes the path of the inner one anew, and for three documents. Up to five
arrays both keys are in use, beyond that one: properties relate paths that share
keys, and siblings are already there with five. Keys are symmetric.

**Fairness.** `CapSearch` has weak fairness of its step: a C function runs on.
`CarrayForeach` has weak fairness of each loop's next fetch: after a body has
run, however many calls it made, the VM fetches again.
`Utf8Readers` has weak fairness of `str_utf8c` alone: the token reader goes on
to the end of its text, and what that depends on is that no call returns an
empty string before. Nothing is assumed of the script: it need not break, push or unset. LoopEnds depends on the bound
`MaxSize`: a body that pushes for ever without it makes a loop that does not
end, in PHP as well. `CarrayAccess` has weak fairness of `Answering`: the engine
goes on with an access that it has begun, into the handler, the method and back.
It assumes that a method of the script returns. Deadlock is not checked for
`capsearch` and `foreach`, where the search returns and the script ends, nor for
`phizfunctions`, where the loops end, nor for `tomltables`, where no array is left
to make, nor for `access`, `claim_get` and `owners`, where nothing is modelled
after undefined behaviour.

## Proofs

Checked by the TLA+ proof system, for every value of the constants:

- **GarrayProofs**, about the operators of a block, in four parts. (1) A nonempty
  finite set of marks above a size has a least one; with a rising table whose
  last mark is at least 2, the room for growth is never less than the size
  (`NextCapMarkEnough`). The assumption on the last mark is needed: past a table
  that ends at 1, `floor(1.5*(2-1))` is 1, for size 2. (2) Each operator takes a
  well-formed array whose size is inside its block to another (`IsArray` and
  `ElementsInBlock`). `ElementsInBlock` is stronger than size <= extent: without
  "a nonzero capacity is the extent" the comparison with capacity in
  `gen_resize` says nothing about the block, and without "no pointer, no extent"
  freeing is not covered. (3) No operator writes a value into a cell
  (`NothingNew`): what a cell holds afterwards it held before, and a cell that is
  cut off a mixed array is null (`GenResizeElements`). (4) With a capacity every
  element stays (`GenResizeKeeps`), without one all are lost.
  The module begins with what the other proofs need in place of induction: a set
  of numbers that is not empty has a least one, from which a function that is
  recursive in a number exists and is unique, whatever its step (`GoesByExists`,
  `GoesByUnique`). The library states this with an operator as a parameter, which
  no backend here instantiates; with the step a function it is of first order.
- **LoopProofs**, about the loops on local variables. The search: `Brackets` is
  inductive together with the types, and at the end leaves `lo` as the least
  index whose mark suffices, from which `ReturnsNextCapMark` and `RoomEnough`
  follow. `route_extract_params`, for patterns over any characters: the
  invariant `RouteInv` adds to `ItemBetweenBrackets` and `NumbersDiffer` the
  types of the counters and that the pending name and expression are there
  together (`NamePair`): an item gives both at its last colon, or neither. `RouteTypesHold`,
  `ItemsCut` and `GroupsDiffer` follow. `PatternsAsWritten` (`PhizSpec =>
  []AsWritten`) is about patterns put together from any number of items of any
  length. What a recursive function joins is a `Chain`, which exists and is
  unique; so every item has a place in the pattern (`Placed`), and the
  expressions of the first k items are one sequence (`Routed`). The loop's own
  count goes by items (`ItemNumber`), the property's by groups; behind groups that
  hold no others they agree, since each group then has one parenthesis that opens
  (`OneGroup`, `NumbersAgree`). The invariant
  `AsInv` says that the cursor is j characters into the item behind the first k:
  these are done (`Numbered` for the groups and names), and of the next one a
  literal or a group is copied as far as it is passed, with as many parentheses
  open as its text says, while nothing of a parameter is written before its
  bracket closes. One lemma per kind of item takes it over a round; at the closing
  bracket, what is cut out of the pattern is what was written between the brackets
  (`ItemIsBody`), and the scan takes all of it, with its one colon. `TypedLast` is
  needed there: a parameter without a type must find no name left behind.
  The case functions: `WordsComeBack` (`PhizSpec => []ComesBack`) pairs the two
  words character by character, by a function from positions to positions: each
  loop extends the pairing by one piece per round, `CaseInv` says how far, and the
  second loop goes the pairing back. Assumed of the constants: letters and digits
  are neither brackets nor colons, patterns, words and separators are sequences of
  characters, and the byte that ends a string is no letter of a word.
- **CarrayProofs**: the invariant `Inv` is the type invariant with
  `SizeWithinBlock`, one lemma per action. `TypeCorrect` and `ElementsSafe`
  conclude `Spec => []TypeOK` and `Spec => []SizeWithinBlock`: no sequence of
  calls, of any length, with any growth table and any sizes from 0 up, lets an index that
  passes the handlers' check leave the block. `ReferencesCovered` adds `Covered`:
  the places that hold a value are finitely many, and the count is at least
  their number and that of the variables. Each action adds or removes places of
  one array, so the count is compared with what part (3) of GarrayProofs says of
  its cells. `ElementsKept` (`Spec => KeepsElements`) is part (4), action by
  action. `ListsImplemented` is the refinement, `Spec => ImplementsList`: the
  mapping of CarrayList takes the initial state to an initial state of ArrayList,
  and each action to one of its actions or to none, with one lemma per action.
  `Forget` is used exactly where a block without a capacity is enlarged.
- **CarrayForeachProofs**: the invariant counts who holds the object (the loops
  that run, and the variable), says that the block is freed only with the last
  of them, and where each loop is: what a loop has yet to visit lies before it
  (`OnTheWay`). `IteratedIsHeld`, `StableVisited` and `FetchesInside` follow for
  any number of loops; the number of running loops is a cardinality, so that a
  loop that ends twice or is not counted would break it.

- **CarrayAccessProofs**: `StoredComesBack` is about numbers: what a type accepts
  is within its width, and the remainder by the width is undone by reading the
  upper half as negative. It is the one place that needs the compiler's char to
  be signed, as the range of int8 is that of char; `AccessReads` (`Spec =>
  []ReadsBack`) and `SignedTakesNegatives` inherit the assumption. The invariant
  of `AccessReads` adds that a call carries a value of the script, that a mixed
  array is the kind with constructors (so that growth makes null), and that a
  pending assignment points at an element that is still there unless undefined
  behaviour has happened. Its block is weaker than that of CarrayProofs: the
  cells may hold anything, since here they hold the bytes of ten types.
  `CheckedFetchReads` (`Spec => CheckedFetch`) is about what lies between
  `valid()` and the fetch: writes, growth, and each resize that leaves the array
  longer than the index of the iterator. One that does not takes the answer of
  `valid()` back: the code then reads past the elements. Otherwise an iterator
  that was told it is valid is inside, and reads the element as it was last
  written, wherever the block has moved.
- **Utf8ReadersProofs**. The codec: `DecodeStaysInside` and `DecodeInRange` hold
  of every string of bytes, well-formed or not; `RoundTrip` of every code point,
  surrogates included. The numbers are taken apart with `\div` and `%`, one lemma
  for each encoded length. The readers: `ReadersInside` concludes `Spec =>
  []OffsetsInside` from the codec's theorems: the invariant is inductive as soon
  as the text is known to be a sequence of bytes. `ReaderGoesForward` needs one
  more invariant, `Settled`: an iterator that is not on a character is where a
  move leaves it. Well-formed text: at a cut the decoder finds the character that
  begins there, takes all of it, and gives the number the standard gives it
  (`DecodesText`); so both readers are always at cuts (`AtCuts`), from which
  `IteratorReadsText` and `TokenReaderWalksText` follow. No induction over the
  text is needed, since what is at a cut does not depend on the cuts before it.
  `Csu32`: the loops of `__construct` and `__toString` are functions recursive in
  the round, and the lemmas of GarrayProofs give their values. After a round of
  the first, the array is well formed and holds the codes of the cuts passed
  (`ReadersTypes`, `Csu32HoldsText`); growth on the way moves them, so each round
  leans on what GarrayProofs says of `gen_resize`. For `PrintsTheCodes` the
  second loop is read by the first: what is printed up to a code is in front of
  all that is printed, so the decoder is, after each round, where the next code
  begins, and `RoundTrip` says it finds that code.

- **TomlTablesProofs**: the invariant adds to `TypeOK` and `LastElementExists` that
  the tags of different paths are about different arrays (an element appended
  through one would otherwise be one that the other did not count) and that a
  header which has made an array is at an empty one and has its tag (so that it
  ends with a tag at hand). One lemma per way the heap grows, one per way a tag
  changes, one per action that does either. `TablesTypes`, `ElementsCounted` and
  `NothingTakenAway` (`Spec => KeepsEntries`) follow, stale tags or not.
  `PathsLeadThere`: where a path leads never changes, since entries are kept; a
  tag keeps its array and never stops being an array of tables, so a path that is
  plain now was plain all along; a header has gone on by entries only where its
  path is plain. `TablesDefinedOnce` (`Spec => DefinedOnce`): every array ever
  made has one path (`PlacedIn`: that of its parent and its key, or of the array it
  is an element of), the tag of a path is about an array with that path, and a
  header at an array has its path. A header that has ended at an array has left a
  mark in the tag of that path (`GivenIn`), and the mark stays: the next header
  there is refused, or makes an element, or has made its array itself.

- **OwnersProofs**: the invariant says what every count is. Of captures it is
  exactly what holds them, plus one until `captures` has been called, plus one
  for ever if that never happens; further calls take references that are not
  counted, so it is lower from the second on (`CapturesCounted`, which also says
  that no two objects have the same captures). Of a string it is at least the
  number of variables and objects that hold it, and one more when an iterator
  still reads it while its object has been given another string
  (`TextCounted`): `__construct` called again leaves the old reference behind,
  which is the only thing such an iterator lives by. Of a Csu8 it is the number
  of its iterators and its variable. `CapturesThere`, `CapturesGone`, `TextsHeld`
  and `ObjectsHeld` read their properties off it, `OwnersTypes` the types, for
  any number of strings, arrays, objects and iterators. Assumed: no count comes
  round upwards (`MaxRefs` is below `Wide`); 2^32 references left behind by
  calls of `__construct` on one object are therefore not covered.

Every invariant and action property that the runs check is proved. Model-checked
only: liveness (`Returns`, `LoopEnds`, `WalkEnds`, `AccessEnds`), which is out of
the prover's reach, and the four claims that are violated.

## Not modelled

- Negative sizes. The constructor takes one as no size. `gen_resize` compares one
  with `head.size`, a `size_t`, so that it counts as a growth past any capacity, for
  which `next_cap_mark`, whose argument is signed, gives the least mark: the size
  is then set past the block. `pca_reserve` asks the allocator for the huge number.
  What is said here of sizes is said of sizes from 0 up.
- Failure of the allocator, which ends the request; objects whose constructor was
  never called.
- A direct call of `Carray::offsetGet` with an index out of range: it throws and
  then copies from a null pointer. `CarrayAccess` has accesses through the handlers.
- A destructor that starts while another one runs, one that runs for the
  elements that `resize` cuts off, and one that lets go of the array itself.
- NaN; indices that are arrays, objects or resources.
- What a Cregx matches, which is PCRE, and its flags, which are handed on to it.
- Texts handed to `Csu32` other than the one the other readers read; zero bytes
  in a route pattern, where the scan of an item stops; the null string that is put into the result when
  nothing was written to the expression (`''` or `'{a'`); characters above 127 in the
  case functions, for which `toupper` and `tolower` are given a negative number
  where char is signed.
- The tokens of TOML and the values behind keys: they are PCRE expressions, and
  all that could be said of them is what each expression matches. Lists, inline
  tables (which fail at a constant that does not exist); keys that are integers
  or contain brackets, which could make two paths one.
- `Time24`: times are floating-point numbers, normalised by functions
  (`daytime_*`) that are not in the repository.
- Class registration, generated argument tables and the build.

## Plan

What is left: negative sizes in `Garray`, with sizes of the width of the machine,
whose comparisons are unsigned in one place and signed in another; theorems about
sizes then need the assumption that none is negative.
