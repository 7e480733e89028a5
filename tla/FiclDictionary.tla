-------------------------- MODULE FiclDictionary --------------------------
(***************************************************************************)
(* The dictionary of one Ficl system: the memory that `here` divides into  *)
(* used and free, the words and wordlists that live in it, the hash chains *)
(* that link them, the search order, and the definition being compiled.    *)
(* dictionary.c, hash.c and search.c keep the state; the defining words of *)
(* primitives.c, FORGET and FORGET-WID of tools.c, MARKER of               *)
(* softcore/marker.fr and the error exits of ficlVmExecuteString (vm.c)    *)
(* change it.                                                              *)
(*                                                                         *)
(* Memory is a row of units 1..Size.  A word header together with its name *)
(* string and its first cell is one unit, a wordlist header is one unit, a *)
(* compiled or comma-ed cell is one unit; so word->name and word are the   *)
(* same address here.  Freeing memory moves `here` down; what freed memory   *)
(* still holds is not tracked, it reads as blank, and the invariants say   *)
(* that no pointer a lookup follows leads there.                           *)
(***************************************************************************)
EXTENDS Integers, Sequences, FiniteSets

CONSTANTS
    Size,           \* units of dictionary memory
    Names,          \* the names a program may define
    NoName,         \* the empty name of a :noname word
    Resident,       \* the name of the one word compiled by the system itself
    HashCode,       \* ficlHashCode: a number for every name
    MaxBuckets,     \* buckets of the forth wordlist (FICL_HASH_SIZE)
    MaxWordlists,   \* FICL_MAX_WORDLISTS
    OrderBound,     \* bound on the search order a program may build
    Markers,        \* the names a program defines with MARKER
    ListBound,      \* bound on the wordlists alive at once
    TagBound,       \* bound on the colon tags left on the data stack
    Obligations     \* the rules of use the program keeps, see AllObligations

(***************************************************************************)
(* What ANS Forth and the comments of the code leave to the program.  Each *)
(* rule the program keeps is a guard of the actions that could break it.   *)
(*   one_definition   no defining word, wordlist, FORGET or MARKER while a *)
(*                    definition is open, and ] only to resume an open one *)
(*   order_room       >SEARCH only while the order has a free slot         *)
(*   forget_owner     FORGET and a marker only when every later word lives *)
(*                    in a wordlist they prune, and no later wordlist is   *)
(*                    in use                                               *)
(*   older_parent     WID-SET-SUPER only names an older wordlist           *)
(***************************************************************************)
AllObligations == {"one_definition", "order_room", "forget_owner", "older_parent"}

Null    == 0
Addr    == 1..Size
Pointer == 0..Size
Bucket  == 0..(MaxBuckets - 1)

ForthWordlist == 1

ASSUME SizeAssumption        == Size \in Nat /\ Size >= 2
ASSUME NamesAssumption       == NoName \notin Names /\ Resident \in Names
ASSUME MarkersAssumption     == Markers \subseteq Names
ASSUME ListBoundAssumption   == ListBound \in Nat \ {0}
ASSUME HashAssumption        == HashCode \in [Names -> Nat]
ASSUME BucketsAssumption     == MaxBuckets \in Nat \ {0}
ASSUME WordlistsAssumption   == MaxWordlists \in Nat \ {0}
ASSUME OrderBoundAssumption  == OrderBound \in Nat /\ OrderBound >= MaxWordlists
ASSUME TagBoundAssumption    == TagBound \in Nat \ {0}
ASSUME ObligationsAssumption == Obligations \subseteq AllObligations

VARIABLES
    here,       \* dictionary->here: the next free unit
    kind,       \* what each unit was last used for
    word,       \* ficlWord: name, link and the SMUDGED flag
    list,       \* ficlHash: size, table of chain heads, link to the parent
    saved,      \* the body of a marker: compilation wordlist and search order
    smudge,     \* dictionary->smudge: the word defined last
    current,    \* dictionary->compilationWordlist
    order,      \* dictionary->wordlists[0 .. wordlistCount-1]
    state,      \* vm->state
    colonSys    \* colon tags on the data stack

vars == <<here, kind, word, list, saved, smudge, current, order, state, colonSys>>

Kinds     == {"free", "word", "list", "marker", "data"}
Words     == [name : Names \cup {NoName}, link : Pointer, smudged : BOOLEAN]
Wordlists == [size : 1..MaxBuckets, table : [Bucket -> Pointer], link : Pointer]
Saves     == [current : Pointer, order : Seq(Pointer)]

NoWord     == [name |-> NoName, link |-> Null, smudged |-> FALSE]
NoWordlist == [size |-> 1, table |-> [b \in Bucket |-> Null], link |-> Null]
NoSave     == [current |-> Null, order |-> << >>]

TypeOK ==
    /\ here \in 1..(Size + 1)
    /\ kind \in [Addr -> Kinds]
    /\ word \in [Addr -> Words]
    /\ list \in [Addr -> Wordlists]
    /\ saved \in [Addr -> Saves]
    /\ smudge \in Addr
    /\ current \in Pointer
    /\ order \in Seq(Pointer)
    /\ state \in {"interpret", "compile"}
    /\ colonSys \in Nat

-----------------------------------------------------------------------------
(* Reading the dictionary *)

IsWord(a) == kind[a] \in {"word", "marker"}

LiveWords == {a \in 1..(here - 1) : IsWord(a)}
LiveLists == {a \in 1..(here - 1) : kind[a] = "list"}

(* A list walk of the C code: from h, move on until the pointer is in Stop. *)
(* A walk that is outside Stop after Size steps has met a cycle.            *)
Follow(h, next, Stop) ==
    LET hop == [a \in Pointer |-> IF a \in Stop THEN a ELSE next[a]]
        at[k \in Nat] == IF k = 0 THEN h ELSE hop[at[k - 1]]
    IN  at[Size]

WordLink == [a \in Addr |-> word[a].link]
ListLink == [a \in Addr |-> list[a].link]

BucketOf(l, n) == HashCode[n] % list[l].size

(* The inner loop of ficlHashLookup: one chain of one wordlist. *)
ChainLookup(l, n) ==
    Follow(list[l].table[BucketOf(l, n)], WordLink,
           {Null} \cup {a \in Addr : word[a].name = n})

(* Faulty: ficlHashLookup without its outer loop over the parents. *)
OwnLookup(l, n) == ChainLookup(l, n)

(* ficlHashLookup: the wordlist, then its parents. *)
HashLookup(l, n) ==
    LET found == Follow(l, ListLink,
                        {Null} \cup {m \in Addr : kind[m] = "list" /\ ChainLookup(m, n) # Null})
    IN  IF found = Null THEN Null ELSE ChainLookup(found, n)

(* ficlDictionaryLookup: the search order from its top. *)
Lookup(n) ==
    LET hits == {i \in DOMAIN order : HashLookup(order[i], n) # Null}
    IN  IF hits = {} THEN Null
        ELSE HashLookup(order[CHOOSE i \in hits : \A j \in hits : j <= i], n)

(* A definition is open from : or :NONAME to ; or to the error that ends it. *)
DefinitionOpen ==
    /\ colonSys > 0
    /\ word[smudge].smudged

-----------------------------------------------------------------------------
(* The functions of dictionary.c and hash.c that the primitives call *)

RoomFor(n) == here + n <= Size + 1          \* bound: Size

Keeps(rule) == rule \in Obligations

(* Moving here down to where frees every unit from there on. *)
Below(f, where, blank) == [a \in Addr |-> IF a < where THEN f[a] ELSE blank]

FreeFrom(where, lists) ==
    /\ here' = where
    /\ kind' = Below(kind, where, "free")
    /\ word' = Below(word, where, NoWord)
    /\ list' = Below(lists, where, NoWordlist)
    /\ saved' = Below(saved, where, NoSave)

(* ficlDictionaryAppendWord up to its unsmudge: a smudged header at here. *)
AppendWord(k) ==
    /\ RoomFor(1)
    /\ kind' = [kind EXCEPT ![here] = k]
    /\ smudge' = here
    /\ here' = here + 1

(* Faulty: ficlHashInsertWord puts the word at the head of its chain and    *)
(* drops the rest, or ignores the hash code.                                *)
CutOffWords(a, n) == [word EXCEPT ![a] = [name |-> n, link |-> Null, smudged |-> FALSE]]
FirstBucketLists(a, n) == [list EXCEPT ![current].table[0] = a]

(* ficlDictionaryUnsmudge and ficlHashInsertWord: the words and the         *)
(* wordlists once word a, called n, is finished; a nameless word is never   *)
(* linked.                                                                  *)
UnsmudgedWords(a, n) ==
    [word EXCEPT ![a] =
        [name    |-> n,
         link    |-> IF n = NoName THEN word[a].link
                     ELSE list[current].table[BucketOf(current, n)],
         smudged |-> FALSE]]

UnsmudgedLists(a, n) ==
    IF n = NoName THEN list
    ELSE [list EXCEPT ![current].table[BucketOf(current, n)] = a]

(* ficlDictionaryAppendCell and its kin. *)
AppendCell ==
    /\ RoomFor(1)
    /\ kind' = [kind EXCEPT ![here] = "data"]
    /\ here' = here + 1

(* Faulty: ficlHashForget stops one word early. *)
ForgottenAfter(L, where) ==
    [l \in Addr |->
        IF l \in L
        THEN [list[l] EXCEPT !.table =
                [b \in Bucket |-> Follow(list[l].table[b], WordLink, 0..where)]]
        ELSE list[l]]

(* ficlHashForget on every wordlist of L. *)
Forgotten(L, where) ==
    [l \in Addr |->
        IF l \in L
        THEN [list[l] EXCEPT !.table =
                [b \in Bucket |-> Follow(list[l].table[b], WordLink, 0..(where - 1))]]
        ELSE list[l]]

(* ficlDictionaryAbortDefinition.  Where smudge points to freed memory, the  *)
(* flag and the name it reads are anything.                                 *)
AbortDefinition ==
    \E where \in IF ~IsWord(smudge) THEN Addr
                 ELSE IF word[smudge].smudged THEN {smudge} ELSE {here} :
        FreeFrom(where, list)

-----------------------------------------------------------------------------
(* Defining words *)

Interpreting == state = "interpret"

MayDefine == Keeps("one_definition") => ~DefinitionOpen

(* CREATE, VARIABLE, CONSTANT and the other words that append a finished word. *)
Create(n) ==
    /\ Interpreting /\ MayDefine
    /\ AppendWord("word")
    /\ word' = UnsmudgedWords(here, n)
    /\ list' = UnsmudgedLists(here, n)
    /\ UNCHANGED <<saved, current, order, state, colonSys>>

(* : and :NONAME open a definition: a smudged word, a colon tag, compile state. *)
OpenDefinition(n) ==
    /\ Interpreting /\ MayDefine
    /\ colonSys < TagBound
    /\ AppendWord("word")
    /\ word' = [word EXCEPT ![here] = [name |-> n, link |-> Null, smudged |-> TRUE]]
    /\ state' = "compile"
    /\ colonSys' = colonSys + 1
    /\ UNCHANGED <<list, saved, current, order>>

Colon(n) == n # NoName /\ OpenDefinition(n)
ColonNoName == OpenDefinition(NoName)

(* Compiling a word or a literal, or a comma: one more cell of data. *)
Comma ==
    /\ AppendCell
    /\ UNCHANGED <<word, list, saved, smudge, current, order, state, colonSys>>

(* ; takes the colon tag, compiles the return and unsmudges the word. *)
Semicolon ==
    /\ state = "compile"
    /\ colonSys > 0
    /\ AppendCell
    /\ word' = UnsmudgedWords(smudge, word[smudge].name)
    /\ list' = UnsmudgedLists(smudge, word[smudge].name)
    /\ state' = "interpret"
    /\ colonSys' = colonSys - 1
    /\ UNCHANGED <<saved, smudge, current, order>>

LeftBracket ==
    /\ state = "compile"
    /\ state' = "interpret"
    /\ UNCHANGED <<here, kind, word, list, saved, smudge, current, order, colonSys>>

RightBracket ==
    /\ Interpreting
    /\ Keeps("one_definition") => DefinitionOpen
    /\ state' = "compile"
    /\ UNCHANGED <<here, kind, word, list, saved, smudge, current, order, colonSys>>

(* Faulty: DROP does not look whether there is a cell. *)
DropUnchecked ==
    /\ Interpreting /\ MayDefine
    /\ colonSys' = colonSys - 1
    /\ UNCHANGED <<here, kind, word, list, saved, smudge, current, order, state>>

(* DROP of a colon tag that a QUIT has left on the data stack. *)
DropColonSys ==
    /\ Interpreting /\ MayDefine
    /\ colonSys > 0
    /\ colonSys' = colonSys - 1
    /\ UNCHANGED <<here, kind, word, list, saved, smudge, current, order, state>>

-----------------------------------------------------------------------------
(* Wordlists and the search order *)

(* FICL-WORDLIST: ficlDictionaryCreateWordlist with n buckets. *)
FiclWordlist(n) ==
    /\ Interpreting /\ MayDefine
    /\ RoomFor(1) /\ Cardinality(LiveLists) < ListBound
    /\ kind' = [kind EXCEPT ![here] = "list"]
    /\ list' = [list EXCEPT ![here] = [NoWordlist EXCEPT !.size = n]]
    /\ here' = here + 1
    /\ UNCHANGED <<word, saved, smudge, current, order, state, colonSys>>

SetCurrent(l) ==
    /\ Interpreting
    /\ current' = l
    /\ UNCHANGED <<here, kind, word, list, saved, smudge, order, state, colonSys>>

(* DEFINITIONS throws when the order is empty: that is ErrorExit. *)
Definitions ==
    /\ Interpreting
    /\ order # << >>
    /\ current' = order[Len(order)]
    /\ UNCHANGED <<here, kind, word, list, saved, smudge, order, state, colonSys>>

(* SET-ORDER of a given list; a negative count is Only. *)
SetOrder(ls) ==
    /\ Interpreting
    /\ Len(ls) <= MaxWordlists
    /\ order' = ls
    /\ UNCHANGED <<here, kind, word, list, saved, smudge, current, state, colonSys>>

(* ficlDictionaryResetSearchOrder *)
ResetSearchOrder ==
    /\ current' = ForthWordlist
    /\ order' = <<ForthWordlist>>

Only ==
    /\ Interpreting
    /\ ResetSearchOrder
    /\ UNCHANGED <<here, kind, word, list, saved, smudge, state, colonSys>>

(* >SEARCH throws when the count is greater than FICL_MAX_WORDLISTS. *)
SearchPush(l) ==
    /\ Interpreting
    /\ Len(order) <= MaxWordlists /\ Len(order) < OrderBound
    /\ Keeps("order_room") => Len(order) < MaxWordlists
    /\ order' = Append(order, l)
    /\ UNCHANGED <<here, kind, word, list, saved, smudge, current, state, colonSys>>

(* SEARCH> throws when the order is empty. *)
SearchPop ==
    /\ Interpreting
    /\ order # << >>
    /\ order' = SubSeq(order, 1, Len(order) - 1)
    /\ UNCHANGED <<here, kind, word, list, saved, smudge, current, state, colonSys>>

(* WID-SET-SUPER ( parent child -- ) *)
SetParentWid(parent, child) ==
    /\ Interpreting
    /\ Keeps("older_parent") => parent < child
    /\ list' = [list EXCEPT ![child].link = parent]
    /\ UNCHANGED <<here, kind, word, saved, smudge, current, order, state, colonSys>>

-----------------------------------------------------------------------------
(* FORGET and MARKER *)

OrderSet(o) == {o[i] : i \in DOMAIN o}

(* Nothing at or above where stays in use: not a wordlist of the search     *)
(* order cur and o, and no word of a wordlist outside the pruned ones.      *)
OwnersPruned(where, cur, o, pruned) ==
    /\ cur < where
    /\ \A l \in OrderSet(o) : l < where
    /\ \A l \in LiveLists \ pruned :
            l < where => \A b \in Bucket : list[l].table[b] < where

(* FORGET finds the word through the search order and prunes the            *)
(* compilation wordlist only.                                               *)
Forget(n) ==
    LET where == Lookup(n) IN
    /\ Interpreting /\ MayDefine
    /\ where # Null
    /\ Keeps("forget_owner") => OwnersPruned(where, current, order, {current})
    /\ FreeFrom(where, Forgotten({current}, where))
    /\ UNCHANGED <<smudge, current, order, state, colonSys>>

(* FORGET-WID prunes one wordlist down to here. *)
ForgetWid(l) ==
    /\ Interpreting
    /\ list' = Forgotten({l}, here)
    /\ UNCHANGED <<here, kind, word, saved, smudge, current, order, state, colonSys>>

(* MARKER creates a word whose body saves the compilation wordlist and order. *)
CreateMarker(n) ==
    /\ Interpreting /\ MayDefine
    /\ AppendWord("marker")
    /\ word' = UnsmudgedWords(here, n)
    /\ list' = UnsmudgedLists(here, n)
    /\ saved' = [saved EXCEPT ![here] = [current |-> current, order |-> order]]
    /\ UNCHANGED <<current, order, state, colonSys>>

(* Running a marker: HERE back to its name, then the saved compilation      *)
(* wordlist and each wordlist of the saved order, restored and pruned.      *)
RunMarker(n) ==
    LET where  == Lookup(n)
        pruned == {saved[where].current} \cup OrderSet(saved[where].order)
    IN
    /\ Interpreting /\ MayDefine
    /\ where # Null /\ kind[where] = "marker"
    /\ Keeps("forget_owner") =>
            OwnersPruned(where, saved[where].current, saved[where].order, pruned)
    /\ FreeFrom(where, Forgotten(pruned, where))
    /\ current' = saved[where].current
    /\ order' = saved[where].order
    /\ UNCHANGED <<smudge, state, colonSys>>

-----------------------------------------------------------------------------
(* The exits of ficlVmExecuteString that end a definition *)

(* Faulty: the abort does not test the VM state. *)
AbortAlways == AbortDefinition

AbortIfCompiling ==
    IF state = "compile" THEN AbortDefinition
    ELSE UNCHANGED <<here, kind, word, list, saved>>

(* ERROR_EXIT, ABORT and ABORT": the VM is reset, so the data stack is empty. *)
ErrorExit ==
    /\ AbortIfCompiling
    /\ ResetSearchOrder
    /\ state' = "interpret"
    /\ colonSys' = 0
    /\ UNCHANGED smudge

(* QUIT: the data stack and the search order stay. *)
QuitExit ==
    /\ AbortIfCompiling
    /\ state' = "interpret"
    /\ UNCHANGED <<smudge, current, order, colonSys>>

-----------------------------------------------------------------------------

(* After ficlSystemCreate: the forth wordlist, one word in it, the default  *)
(* search order.                                                            *)
Init ==
    /\ here = 3
    /\ kind = [a \in Addr |-> CASE a = 1 -> "list" [] a = 2 -> "word" [] OTHER -> "free"]
    /\ word = [a \in Addr |-> IF a = 2 THEN [NoWord EXCEPT !.name = Resident] ELSE NoWord]
    /\ list = [a \in Addr |->
                IF a # ForthWordlist THEN NoWordlist
                ELSE [size  |-> MaxBuckets,
                      table |-> [b \in Bucket |->
                                    IF b = HashCode[Resident] % MaxBuckets THEN 2 ELSE Null],
                      link  |-> Null]]
    /\ saved = [a \in Addr |-> NoSave]
    /\ smudge = 2
    /\ current = ForthWordlist
    /\ order = <<ForthWordlist>>
    /\ state = "interpret"
    /\ colonSys = 0

Orders == UNION {[1..k -> LiveLists] : k \in 0..MaxWordlists}

Next ==
    \/ \E n \in Names : Create(n) \/ Colon(n) \/ Forget(n)
    \/ \E n \in Markers : CreateMarker(n) \/ RunMarker(n)
    \/ ColonNoName
    \/ Comma
    \/ Semicolon
    \/ LeftBracket
    \/ RightBracket
    \/ DropColonSys
    \/ \E k \in 1..MaxBuckets : FiclWordlist(k)
    \/ \E l \in LiveLists : SetCurrent(l) \/ SearchPush(l) \/ ForgetWid(l)
    \/ \E ls \in Orders : SetOrder(ls)
    \/ \E p, c \in LiveLists : SetParentWid(p, c)
    \/ Definitions
    \/ Only
    \/ SearchPop
    \/ ErrorExit
    \/ QuitExit

Spec == Init /\ [][Next]_vars

-----------------------------------------------------------------------------
(* Safety *)

(* A pointer a chain may hold: NULL, or a finished word with a name below here. *)
Entry(a) ==
    \/ a = Null
    \/ /\ a \in LiveWords
       /\ word[a].name # NoName
       /\ ~word[a].smudged

(* The words of one wordlist, those a walk of one of its chains comes to. *)
InChain(l, b, a) == Follow(list[l].table[b], WordLink, {Null, a}) = a
Entries(l) == {a \in LiveWords : \E b \in Bucket : InChain(l, b, a)}

(* Every pointer a lookup can follow leads to live memory of the right kind *)
(* and downwards: the search order and the compilation wordlist name live   *)
(* wordlists, a parent is an older wordlist, a chain holds only finished    *)
(* words, each linked to an older one.  So no lookup reads freed memory,    *)
(* runs for ever, or finds a word before its ; (ficlHashLookup,             *)
(* ficlDictionaryUnsmudge, ficlHashForget, the error exits).                *)
ListsLive   == /\ current \in LiveLists
               /\ \A i \in DOMAIN order : order[i] \in LiveLists
ParentsLive == \A l \in LiveLists :
                    list[l].link # Null => list[l].link \in LiveLists /\ list[l].link < l
HeadsLive   == \A l \in LiveLists : \A b \in Bucket : Entry(list[l].table[b])
LinksDescend == \A a \in LiveWords :
                    Entry(a) => Entry(word[a].link) /\ word[a].link < a

WellLinked == ListsLive /\ ParentsLive /\ HeadsLive /\ LinksDescend

(* A finished word with a name is in exactly one chain of one live wordlist, *)
(* the chain of its hash: it can be found, and ficlHashForget can unlink it. *)
(* Two links through one header would splice two wordlists together.         *)
OneHome ==
    \A a \in LiveWords :
        (word[a].name # NoName /\ ~word[a].smudged) =>
            \E l \in LiveLists :
                /\ InChain(l, BucketOf(l, word[a].name), a)
                /\ \A m \in LiveLists, b \in Bucket :
                        InChain(m, b, a) => m = l /\ b = BucketOf(l, word[a].name)

(* A lookup comes to an end at NULL or at a finished word of that name.      *)
LookupSound ==
    \A n \in Names :
        Lookup(n) # Null => /\ Lookup(n) \in LiveWords
                            /\ word[Lookup(n)].name = n
                            /\ ~word[Lookup(n)].smudged

(* In compile state there is a definition for the error exit to abort: the  *)
(* assumption ficlDictionaryAbortDefinition states in its comment.          *)
CompilingIsOpen == state = "compile" => DefinitionOpen

(* Where an error or a QUIT ends a definition, the words and wordlists that  *)
(* were finished before stay finished: the abort frees the open definition   *)
(* and no more (ficlDictionaryAbortDefinition moves here down to smudge).    *)
ExitsKeepFinished ==
    [][ErrorExit \/ QuitExit =>
          /\ LiveLists' = LiveLists
          /\ \A a \in Pointer : Entry(a) => Entry(a)']_vars

=============================================================================
