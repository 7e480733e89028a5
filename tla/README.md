# Ficl 4.1.0 in TLA+

Ficl is a Forth inspired command language: a C library that a host program embeds.
This directory holds TLA+ models of it, configurations that TLC checks, and theorems that TLAPS
proves. Everything is translated from the C sources and from `softcore/*.fr`.

## The system

| part | state it keeps | what makes it correct | module |
|---|---|---|---|
| dictionary (`dictionary.c`, `hash.c`, `word.c`) | memory and `here`, word headers, wordlists with bucket chains and a parent, `compilationWordlist`, the search order, `smudge` | chains hold exactly the finished live words; a lookup ends and finds the youngest; an abort takes back one definition; no two things own one byte | `FiclDictionary`, `FiclDataSpace` |
| search order words (`search.c`) | the order inside the dictionary | the order fits its array and names live wordlists | `FiclDictionary`, `FiclSystem` |
| virtual machine, texts and exceptions (`vm.c`) | IP, stacks, input buffer, `state`, `exceptionHandler`, `runningWord`, `restart` | every exit restores the handler, the input buffer and the IP of the context it returns to | `FiclException` |
| compiler (`primitives.c`) and flow of control (`vm.c`) | control tags on the data stack, the locals being compiled, the code | branches go where the source says; tags match; frames of locals are linked and unlinked in pairs | `FiclCompile` |
| instructions (`vm.c`, `ficltokens.h`) and stacks (`stack.c`) | data, return and float stack, memory | stack comments are true; what does not fit is refused before anything is touched | `FiclStack`, `FiclInstructions` |
| double-cell arithmetic (`double.c`) | none | exact modulo the width | `FiclCells`, `FiclMath` |
| parsing, numbers, strings, output (`vm.c`, `utility.c`, `primitives.c`, `float.c`) | input position, `base`, pad, strings at `here` | nothing of a line is lost or read twice; conversions are inverse; no buffer is passed | `FiclNumbers`, `FiclText` |
| systems, VM lists, lock, output callbacks (`system.c`, `callback.c`, `ficlplatform/*`) | list of VMs, the global system, the dictionary shared by the VMs, its lock | the list holds exactly the live VMs; nothing global outlives its system; two VMs do not mix their definitions | `FiclSystem` |
| debugger and other tools (`tools.c`) | one breakpoint, the instruction it replaced | it is taken out; the program runs as without it; `FORGET` leaves no dangling chain | `FiclDebugger`, `FiclDictionary` |
| files (`fileaccess.c`) | open files, the sources being interpreted, `SOURCE-ID` | lines come whole, writes are kept, the source is the one `SOURCE-ID` names | `FiclFiles` |
| compressed softcore (`lzcompress.c`, `lzuncompress.c`, `bit.c`) | none at run time | what was compressed reads back | `FiclLz` |
| softcore (`softcore/*.fr`) | Forth words | built on the parts above | `MARKER` in `FiclDictionary` |
| old names, host extensions (`compatibility.c`, `extras.cpp`, `ficl-plc.cpp`, `ficl++.cpp`) | the host's | wrappers | see Not modelled |

How the parts interact. A host calls `ficlVmEvaluate`, which makes the string the input buffer
and runs `ficlVmExecuteString`. That compiles a three cell loop whose body is the text
interpreter (`INTERPRET`) and runs it in the inner loop. Each token is looked up through the
parse steps: the dictionary, the prefixes, the numbers. A word found is executed or, in compile
state, appended to the definition being compiled, which is the newest unit of the dictionary.
Errors leave by `longjmp` to `vm->exceptionHandler`, a chain of buffers in the C frames of
`ficlVmExecuteString`, the inner loop, `ficlVmExecuteXT` and `CATCH`. The dictionary belongs to
the system, so all its VMs share it.

What is hard. Ficl runs one thread unless it is built with `FICL_WANT_MULTITHREADED`, so most of
the difficulty lies in long sequences of legal calls: a definition left open by an error, memory
freed beneath chains that still point to it, exits by `longjmp` through several C frames of
which each restores a part of the VM, text that ends in the middle of a word, code that rewrites
itself, buffers whose ends are checked in the wrong unit. `PROJECT.json` lists each such hazard
at its line with the properties that watch it.

How the models are made. One module per component; an action is a whole handler. The modules do
not call one another, for the product of their states says little more than they do apart. They
meet in the operations that touch two components, and each models its side: an error exit is in
`FiclException` (which frames it passes, what they restore) and in `FiclDictionary` (what becomes
of the open definition); `:` and `;` are in `FiclDictionary` (links), `FiclDataSpace` (bytes),
`FiclCompile` (code) and `FiclSystem` (lock); `EVALUATE` is in `FiclException` (frames) and
`FiclFiles` (sources). `DictionaryRefinement` and `ExceptionRefinement` compose a module with the
abstract specification it implements; `FiclInstructions` extends `FiclStack` and `FiclCells`,
`FiclText` extends `FiclNumbers` and that `FiclCells`.

Obligations. Ficl checks little. In most modules the constant `Obligations` is the set of rules
that a program, a host or a user keeps, each a guard of the actions concerned, and each found by
leaving it out and reading what TLC then reports. The runs assume all the rules, so a run says:
a program that keeps these rules never breaks the component, whatever else it does, errors
included. A comment at the head of each module defines its rules, and the section on the module
says what the code does to a program that breaks one. In a definition marked `Faulty` a module
keeps a plausible error of the code, which shows that a property can fail; no action uses it.

## The runs

`tlc -config X.cfg M`, each within a few minutes. All but the last two are exhaustive within
their bounds; those stop at a counterexample.

| run | module | shows | bounds |
|---|---|---|---|
| `Dictionary` | `MCRefinement` | chains sound; every finished word in exactly one chain; compile state means one open definition; exits keep what was finished; lookups find what `WordlistSpec` says, which is implemented; a marker restores | 4 units, 2 names in 2 buckets, 2 wordlists, order of 2, a marker saves an order of 1 |
| `DataSpace` | `FiclDataSpace` | no word and no data is overwritten, `here` stays inside | 6 cells of 2 bytes, 3 words, names that fit and names that are cut |
| `Exception` | `MCExceptionRefinement` | handler, text, IP, return stack, restart; every throw lands; `ExceptionSpec` is implemented | one definition, data stack of 2, return stack of 4, 3 frames |
| `Compile` | `MCCompile` | jumps follow the source; the return stack, locals and IP are in order at run time; rewritten jumps mean the same | 14 families of words, 6 words to a definition, return stack of 7, 3 locals |
| `System` | `FiclSystem` | the lock is balanced; definitions stay whole; VM lists exact; output goes to a live system; everyone gets in | 2 systems, 2 VMs, threads in one of them, 2 cells |
| `Instructions` | `MCInstructions` | the stack comments of the ten shuffle words hold; refusals are right; fused instructions equal their phrases; products, accumulation and divisions on double cells are exact | cells of 2 bits, data stack of 6, return stack of 7, four floats; double cells of 4 bits each, every operand |
| `Text` | `MCText` | lines are cut without loss; a token is a number or float exactly if it spells one, and then that one; strings, output and pictures keep their text, `SPRINTF` what fits | every line of up to 3 characters of 5 kinds and 21 longer ones, bases 2, 3, 10 and 16, cells of 5 bits |
| `Lz` | `FiclLz` | every text reads back whole | window 4, buffer 6, bytes of 3 bits, texts of 8 from 2 symbols |
| `Debugger` | `MCDebugger` | the code can be made whole; nothing moves the program but its own instructions and the ends of inner loops | 2 words, one calling the other, return stack of 4, 2 nested calls, `x` followed where the program stands at its breakpoint |
| `Files` | `MCFiles` | lines whole but for a carriage return, writes kept, `SOURCE-ID` true | 2 files, 2 names, 2 inodes, texts of 3 characters with line feeds and carriage returns, 2 sources |
| `SwallowedThrow` | `MCFiles` | `releases.ht`: `INCLUDE-FILE` rethrows; violated by a code above zero | as `Files`, without `own_codes_caught` |
| `DebuggerLine` | `MCDebuggerLine` | `debugger.ht`: what the line of `x` does to the stacks is preserved; violated | as `Debugger` |

Deadlock is checked in `Instructions`, where some word can always run. Elsewhere a
model may stop: memory, the stacks or the bound on texts are used up, or the host stops.

Fairness. Nothing obliges a program or a host to take a step, and none is assumed to. Three runs
state what the code itself does: `Exception` is fair to `Land` only (a `longjmp` under way
arrives); `Lz` to its loop, which neither waits nor asks; `System` to the end of an operation
that holds the lock (weakly: a C function returns) and to a waiting VM whenever the lock is free
(strongly: the lock is the host's `ficlDictionaryLock`, which must not starve a thread).

## The dictionary

### Modules

- `WordlistSpec`: what the dictionary promises to the text interpreter. No memory and no chains:
  a wordlist is a set of pairs of a name and an age. A definition is added whole and is the
  youngest; things disappear only from some age on; a name means the youngest definition of the
  first wordlist in the search order that has one, parents included.
- `FiclDictionary`: the dictionary as the C code keeps it. One action for each operation.
- `DictionaryRefinement`: the same behaviours with two computed variables (what each wordlist
  holds, and what it held when each live marker was made), the refinement of `WordlistSpec`, and
  what a marker restores.
- `MCRefinement`: small constants for TLC.
- `SetInduction`, `FiclDictionaryProofs`: the proofs, see below.

### State and code

| variable | code |
|---|---|
| `here`, `kind` | `dictionary->here`, and what each unit of memory was last used for |
| `word` | `ficlWord`: `name`, `link`, `FICL_WORD_SMUDGED` |
| `list` | `ficlHash`: `size`, `table`, `link` |
| `saved` | the compilation wordlist and the search order that a `MARKER` word stored in its body |
| `smudge` | `dictionary->smudge` |
| `current`, `order` | `compilationWordlist`, `wordlists[0..wordlistCount-1]` |
| `state`, `colonSys` | `vm->state`, and the number of colon tags on the data stack |

Each action is the whole handler. `Create` stands for `CREATE`, `VARIABLE`, `CONSTANT` and the
others that end in `ficlDictionaryUnsmudge`. `ErrorExit` and `QuitExit` are the exits of
`ficlVmExecuteString`: the step from the error to the VM that waits for the next line. `RunMarker`
is the whole body of a marker word.

Abstractions.

- Memory is a row of units. A header with its name and its code cell is one unit, a wordlist
  header is one, a cell is one. The order of addresses, which is all that `FORGET`, the abort and
  the chains use, is kept.
- `Size` stands for the end of memory. Only a build with `FICL_ROBUST` checks for it, in
  `ficlVmDictionarySimpleCheck`; a model without the guard would do nothing but overrun.
- Freed memory reads as blank. The real memory keeps its old bytes until they are overwritten.
  What the properties say is that no pointer leads there, so what it would read does not matter;
  where the code does read it (`smudge` after a `FORGET`), every outcome is allowed.
- Actions that a compiled word would do are guarded by the interpret state: in compile state the
  interpreter appends words instead of running them. `;` and `[` are the immediate ones modelled.
- The environment and locals dictionaries are not modelled. Wordlists are assumed to be used only
  through the words above, not by storing into their cells.

### Obligations

The comment before `AllObligations` defines the four rules. What the code does without them:

- `one_definition`: `: foo [ create bar ] ;` links `bar` twice, to itself, and a failing lookup
  runs for ever. `dictionary.c:824` links whatever `smudge` points to, although `hash.c:134` asserts
  that a word is never linked to itself.
- `order_room`: `>SEARCH` on a full order takes one more wordlist, past the array. `search.c:283`
  says `>` where the comment calls a full order an error.
- `forget_owner`: `FORGET` prunes one wordlist (`tools.c:714`); later words of other wordlists stay
  linked in freed memory.
- `older_parent`: stands in for ANS, which has no parents. A cycle of parents makes every failing
  lookup run for ever.

Also met, though no rule depends on it: `smudge`, "the last word defined" (`ficl.h:1400`), names a
freed word after a `FORGET` or an abort, and `IMMEDIATE` then writes there (`dictionary.c:811`).
The model lets that write hit anything that has no header.

### Bounds

Four units hold the forth wordlist, the resident word and two more: a second wordlist with a word
of its own, a finished word below an open definition, or a marker and the word that follows it.
Two names with different buckets, and one wordlist with a single bucket, distinguish the hash
code, the bucket and the wordlist. `TagBound`, `ListBound` and `OrderBound` bound the colon tags,
the wordlists alive and the length of the order; `ShortSaved` bounds what a marker saves. There is
no liveness here: nothing obliges a program to take a step.

### Proofs

`FiclDictionaryProofs` proves, for every size of memory, every set of names, every hash function,
every number of buckets and every length of search order, with one assumption beyond those of
`FiclDictionary` (`Careful`: the program keeps all four obligations):

- `Invariance`: `IInv` is an invariant;
- `TypeCorrect`, `AlwaysWellLinked`, `AlwaysLookupSound`, `AlwaysCompilingIsOpen`;
- `AlwaysExitsKeepFinished`: an error or a `QUIT` frees the open definition and no more;
- `AlwaysOneHome`: a finished word is in one chain of one wordlist, the chain of its hash.

and, under the same assumption, for `SpecR`:

- `DictionaryKeepsPromise`: the chains, links and the search order implement `WordlistSpec`;
- `AlwaysLookupKeepsPromise`: `ficlDictionaryLookup` finds what a name means there;
- `AlwaysMarkerRestores`: a marker brings back what there was when it was made.

`WellLinked` is not inductive. An error exit frees memory from `smudge` up, so one must know that
nothing finished lies above the open definition (`OpenIsLast`) and that a smudged header is a real
one (`SmudgedReal`). Running a marker installs a saved order, so what a live marker saved must be
older than the marker (`MarkersSave`), or freeing down to the marker would free it. The exits
install the forth wordlist, so that must be alive (`ForthLive`). `LinksDescend` is strict: a word
is linked to an older word. That is why a walk ends.

The walks of the C code are loops over pointers. `Follow` is a recursive function on numbers, so
the proofs need induction, and the induction rule of the library takes an operator, which the
installed provers cannot use. `SetInduction` states induction for sets of numbers and proves it
from the properties of arithmetic alone; `FiclDictionaryProofs` proves with it that a walk along
descending pointers stays inside any set closed under the pointer and stops within `Size` steps
(`FollowIn`, `FollowStops`), and from that what a chain walk and a lookup return. The proof that
steps preserve `IInv` sorts the actions into those that leave memory alone, those that append one
unit, those that insert a finished word and those that free from some unit on, with a lemma for
each kind.

`OneHome` needs two facts about the finished words at once, `Homed`: each is in the chain of its
hash in a wordlist *older than the word* (`Homes`), and in no second chain (`Sole`). Without the
age the first is not inductive: forgetting from some address on would free the wordlist of a word
that stays. What a step does to walks of any length is settled once, by `FollowSame` (a walk ends
where it did if the links below its start stay) and `FollowVia` (a walk that stops earlier can go
on from there, which is what `ficlHashForget` leaves behind). With them `NextChains` says of every
step that it is one of three: it keeps every chain (`ChainsStay`), inserts one word that is
younger than everything (`ChainsGain`), or cuts off everything from some address on
(`ChainsLose`). Each of the three keeps `Homed`.

The refinement reads the same three as steps of `WordlistSpec`: a stutter or a new wordlist or
parent, `Define`, and `ForgetFrom`. Its invariant `RefInv` adds to `IInv` and `Homed` that
`contents` is what the chains hold and that every search order, in use or saved by a marker, fits
`FICL_MAX_WORDLISTS` (`OrdersFit`; a marker restores one without looking). For lookups,
`ChainLookupYoungest` shows that the first word of a name in the chain of its hash is the youngest
of that name in the whole wordlist: any other is in the same chain by `Homed`, behind it by
`FollowVia`, so below it. `HashLookupFinds` does the same along the parents, where the abstract
lineage is the least set closed under parents, and the set of wordlists from which the walk leads
to the same place, or that lie below it, is one. For markers, `PastKept` says that what was there
when a live marker was made is, at every moment, what is there now below the marker.

## Texts, words and CATCH

### Modules

- `ExceptionSpec`: what entering and leaving promises. No C frames, no handlers and no copies of
  the VM: a stack of contexts, each of which knows where its caller goes on. A context that ends
  goes back there; a throw goes to the innermost `CATCH`, with its data stack and return addresses
  as they were and the code on top, or to the host; a text used up inside a parsing word waits.
- `FiclException`: one virtual machine as `vm.c` runs it, with the C frames that hold a `jmp_buf`.
- `ExceptionRefinement`: `FiclException` implements `ExceptionSpec`.
- `FiclExceptionProofs`: the theorems, see below.
- `MCExceptionRefinement`: small constants for TLC.

### State and code

| variable | code |
|---|---|
| `vm` | `ficlVm`: `ip`, the tops of `dataStack` and `returnStack`, `state`, `tib` (whose text), `sourceId`, `restart`, `runningWord`, `exceptionHandler` |
| `cells` | the memory of the return stack, which keeps what was pushed |
| `frames` | the active calls of `ficlVmExecuteString`, `ficlVmExecuteXT` and `ficlPrimitiveCatch`: what each saved on entry, and what its inner loop wrote to the VM last |
| `thrown` | the code of the `longjmp` under way |
| `open` | the dictionary holds a smudged definition |
| `result` | the host's last call and what it returned |

Each C frame runs one `ficlVmInnerLoop`, which has a `jmp_buf` of its own. The loop keeps the IP
and the stack tops in local variables, writes them to the VM before it calls a primitive and reads
them back after. Its handler writes them once more and throws on. So one element of `frames` is
the C function with its loop, `local` is what that handler writes (`Spills`), and one `Land` step
is the loop's handler followed by the function's: nothing can come between them. Host calls are
`HostText` and `HostXT`; `Evaluate`, `Catch` and `ParseStep` nest; `Land` is the arrival of a
`longjmp` with everything its handler does up to the return or the next throw.

Abstractions.

- Data cells have no values; a string, a token and an execution token take one cell. The codes of
  the program's own are two, `abort` and `user`.
- An IP inside a colon definition is the name of the definition. The instruction there is any of
  the program's steps.
- Parse steps, and what `CATCH` and the host execute, are colon definitions; for a primitive
  `ficlVmExecuteWord` makes one short loop that changes nothing of the above.
- The locals and floating stacks and the debugger's `BREAK` code are left out, and so are `[` and
  `]`: `CompilingIsOpen` says nothing of a `]` outside a definition.
- `Optimised`. The variables of the inner loop are changed between `setjmp` and `longjmp` and not
  `volatile`, so ISO C leaves them undefined in the handler. `Makefile` builds with `-g` and
  without optimisation, where they live in memory: `Optimised` is `FALSE` in all runs and
  theorems. With `TRUE`, which stands for the `-O` of `Makefile.linux` and `Makefile.ansi`, each
  may have the value it had when the loop started.

### Obligations

As for the dictionary, the code leaves some rules to its users.

- `whole_text`: a parsing word runs out of text only at the end of a text of the host, under no
  `EVALUATE`, `CATCH` or `ficlVmExecuteXT`. In an `EVALUATE` the word is not run again, though
  `ficl.h` says that a word that needs more text is (`vm.c:2734`).
- `catch_interpreting`: `CATCH` runs in interpret state, because it restores the state it saved and
  the definition may be gone.
- `bye_ends`: the host stops using a VM after `BYE`, which leaves one return cell (`vm.c:2690`).
- `failed_xt_ends`: so it does after a `ficlVmExecuteXT` that has thrown, as that leaves return
  addresses (`vm.c:2823`), though `api.html` says it may be called repeatedly.
- `text_first`: a host that was asked for more text gives it before it calls `ficlVmExecuteXT`,
  which looks at `restart` no more than at `runningWord` (`vm.c:2800`): the next text would run again
  whatever word of its own came last.

Also met: `QUIT` in an `EVALUATE` brings data back that was used, for the handler of the outer inner
loop writes its stale stack tops (`vm.c:291`); an error between `[` and `]` leaves the smudged header
in the dictionary, since the abort looks at the state only (`vm.c:2757`).

### Bounds

Three frames are an outer context, a middle one that passes a throw on or catches it, and an
inner one that throws: a frame behaves by what lies directly below it. Four return cells hold a
text with a word and a `CATCH` inside, and a call inside that. One name is enough because no
property compares two definitions.

### Proofs

`FiclExceptionProofs` proves, for every set of definitions, every size of the two stacks and every
bound on the frames, with one assumption beyond those of `FiclException` (`Careful`: all five
obligations, and the inner loop's variables in memory): `Invariance` (`IInv` is an invariant),
`TypeCorrect`, `AlwaysHandlerInnermost`, `AlwaysTextOfInnermost`, `AlwaysIpSound`,
`AlwaysHostBalanced`, `AlwaysCompilingIsOpen`, `AlwaysRestartAtHost` and `ExceptionKeepsPromise`,
that `ExceptionSpec` is implemented.

None of these is inductive: each depends on what a handler will find in the memory it restores
from. `IInv` says it of every frame at once. `Segments`: each frame owns a stretch of the return
stack that starts with its caller's IP, then the place where it ends (interpreter loop or pill),
then only definitions, so that an `EXIT` can never run below its frame and the pop at its end
takes exactly the caller's IP. `Chain`: the saved handlers count down to the host. `Texts`: what a
frame saved as text and `SOURCE-ID` is the innermost text below it. `Copies`: what a `CATCH` saved
still fits the return stack below it. `Thrown` says which frame a code can be thrown in, `Reruns`
and `HostReady` what the host finds.

The proof follows the shape of the code. Lemmas on `Path` say how a call, an exit and the end of a
frame change a segment. `StayStep`, `ThrowStep`, `EnterStep`, `HostStep`, `ReturnStep` and
`ThrowOnStep` say, of each kind of step, what keeps `IInv` and takes a step of the promise, or none
(`Sound`); each action is then shown to be of its kind.

The contexts of `ExceptionSpec` are the frames. Its `calls` are the return stack
and the IP, and `Segments` is what makes them the calls of the innermost context: at every moment
the places of its caller, then something of its own (`InsideNow`). A `longjmp` takes several
steps where the promise takes one, so what is promised is taken from the `CATCH` it will come to:
the views (`RunningView`, `EndingView`, `CaughtView` and the others, one `Seen...` lemma each) say
how each kind of state is seen, and `PassPromise` that a handler which throws on is no step at all.
`ThrowOnStep` has one exception to that: a parse step that gives a false flag ends first and then
throws. For a text used up inside a parsing word `Thrown` keeps that the frame has the tops that
the VM had, so that the wait loses no argument.

Only model-checked: `ThrowLands`, which needs fairness.

## The bytes of the dictionary

`FiclDataSpace` looks at the same memory one level below `FiclDictionary`: bytes instead of units.
`mem` are the bytes, `here` is `dictionary->here`, `words` are the headers in order of age, and
`stored` is a ghost: what the program has put somewhere and still owns. A name is stored at any
byte, cut to `FICL_NAME_LENGTH` and ended by a NUL; the `ficlWord` after it is aligned; `Headed`
tags the bytes of both with the word's place. Actions are the host's `ficlDictionarySet...` and
`Append...`, `CONSTANT`, `VARIABLE`, `2VARIABLE`, `CREATE`, `:` and `;`, the abort, `,`, `C,`,
`ALIGN`, `ALLOT` and `DOES>`. A value is tagged with the number of its byte, so half a cell is
never taken for a whole one.

`WordsWhole` and `StoredKept` say that every header and every datum still has its bytes. What the
code does without the rules:

- `room`: headers, commas and constants are written without a check; only `ALLOT` makes one.
- `whole_cells`: that check (`vm.c:2951`) counts in cells and rounds `here` down. After a `C,` an
  `ALLOT` may pass the end of the dictionary by up to a cell less one byte.
- `two_cells`: `ficlVmDictionaryAllotCells` hands it a number of cells where it compares bytes
  (`vm.c:3009`), so `2VARIABLE` passes it with one cell left.
- `own_allot`: a negative `ALLOT` can take back another word's bytes (only the base is checked).
- `has_cell`: setting a constant in place writes `param[0]` of whatever word has that name
  (`dictionary.c:257`); a primitive has none, and the next name is overwritten.
- `does_after_create`: `DOES>` writes into the newest word, made by `CREATE` or not.

Bounds. Six cells of two bytes hold three small words or a word with data; a name of one
character and one that is cut leave `here` at an odd and at an even byte before alignment.

Proofs. `FiclDataSpaceProofs` proves, for every size of the dictionary and of a cell, every length
of names and all values, that a program and a host that keep the six rules (`Careful`) never break
`TypeOK` (`AlwaysInside`), `WordsWhole` (`AlwaysWordsWhole`) or `StoredKept` (`AlwaysStoredKept`). The
inductive invariant (`SpaceSound`) adds what these lack: words lie one after the other, each with its
cells before the next name (`Laid`), so that cells set in place and a definition given back are
nobody else's; and nothing is stored in a header or in the one cell of a word that `DOES>` may still
write (`Kept`). A lemma for each way bytes change (`UpKeeps`, `AppendKeeps`, `WordKeeps`,
`CellsKeep`, `BackKeeps`, `DropKeeps`, and `MarkKeeps` for words that change no byte) is stated of any
memory, and each action is put together from them. `AllottedFacts` is the one place where the unit
mistake in `ALLOT`'s check matters: it shows that with cells aligned, one cell is never granted past
the end, nor two unless just one is left.

## The compiler and its code

`FiclCompile` compiles one definition and runs it. `code` are its cells, `control` the data stack
with the tags, `locals` the locals dictionary with `localsCount` and `localsFixup`, `source` the
words so far (a ghost), `run` the IP, the return stack and the frame pointer. A word works on a
record of these until it ends or throws; a throw clears the stack and gives the code back but, as
in the code, leaves the locals dictionary as it is. At run time a flag is a choice.

The reference is `Meant`: where a word jumps according to the nesting of the source text alone,
which knows nothing of tags or addresses. `BranchesFollowStructure` compares it with the operands
of a definition that `;` accepted; `IpOnInstruction` and `ReturnStackSound` watch it run;
`OptimizeKeepsMeaning` says that replacing `branchCheck` by a rewritten `branch`, while the
definition runs, leaves every jump with the place where it finally ends (`Settles`).

What the code does without the rules:

- `while_after_begin`: `WHILE` rolls two cells without a look at their tags (`primitives.c:1931`).
- `locals_outside`: the frame is linked where the first local is declared, unlinked where the
  definition ends; inside an `IF` or a loop the one happens without the other.
- `locals_ended`: without the empty name that ends `(LOCAL)` the count of the frame stays what it
  was when the first local was declared.
- `named_after_error`: a failed definition leaves its locals; `:NONAME` does not clear them.
- `does_outside`, `inside_loop`: `DOES>` inside a structure, `LEAVE`, `I`, `UNLOOP` outside a
  loop, or an `EXIT` that skips `UNLOOP` take what others put on the return stack.
- `short_strings`: a longer string is skipped by its count byte, so the IP lands in its text.

Bounds. A definition is written with the words of one family (`MCFamilies`): those that work on the
same tags, or on the same frames. Six words nest each structure in itself and interleave two.
`MaxLocals` 3 lets a double local pass the limit, which the check before it does not see.

### Proofs

`FiclCompileProofs` proves, for definitions of every length, every `MaxLocals`, every depth of the
return stack and every set of families of words, with one assumption beyond those of
`FiclCompile` (`Careful`: the program keeps all seven rules of use):

- `AlwaysIInv`: `IInv` is an invariant;
- `AlwaysIpOnInstruction`: the inner loop never executes an operand or the text of a string;
- `AlwaysReturnStackSound`: an instruction finds on the return stack what was put there for it;
- `AlwaysOptimizeKeepsMeaning`: however jumps are rewritten, control ends where it would have ended.

`FiclCompileLayouts` holds the definitions the proof is made of, without a theorem.

The first two properties are not inductive. That `ip` stays on instructions after a jump needs to
know where the
operand leads, and that `EXIT` finds a return address needs to know all that lies above it, whichever
way control came. So `IInv` gives every place of the code a *layout*: the address of the `LINK`
operand whose frame lies on the return stack (none: zero), the local each cell of that frame holds a
value of, and the number of loops above it. `StaticInv` says it of what is written:

- `Flows`: every instruction passes control, with the layout it leaves, to a place that has this
  layout, and so does every jump whose operand is filled in. What is still to be filled in are the
  addresses on the data stack (`Open`).
- `Marked`: a tag on the data stack with an address under it stands for a jump to be resolved, or a
  place to go back to, with the layout the code has outside the loops opened above the tag. This is
  why `LoopsBelow` counts the `do` tags and why `while_after_begin`, `does_outside` and `inside_loop`
  are needed; `LocalsFit`, where `locals_outside`, `locals_ended` and `named_after_error` are, says
  that the frame of the place where words are added is the one the locals dictionary describes.
- `Sealed`: a definition that `;` has accepted has no open operand and no open loop.

`RunInv` says that the return stack of a run is a stack of activations (`Runs`). Each one stands at a
place of the code and owns the cells its layout says (`Active`, and `Suspended` for those that wait
under a call), with the frame pointer of the one beneath it saved in its frame.

The proof has three parts. Of each compiling word, its operators alone are shown to turn a `Body` into
a `Body` or to fail (`Fits`, a lemma for each word; those that resolve jumps rest on `FlowsPatched`,
those that add cells on `FlowsKept`), and the actions of compilation follow (`CompilingKeeps`).
Of `Branch` it is shown that what the optimiser rewrites is a chain of calls (`Hops`, `Calls`), that
the chain ends, and that the rewritten jumps lead to places with the same layout, because a `branch`
passes its layout on unchanged; so the activations stand where they stood. Of every other
instruction, a lemma says what it does to the topmost activation, and that those under it stay.

`OptimizeKeepsMeaning` follows the orbit of a place under unconditional jumps (`Orbit`). One that
comes to rest does so within `Len(code)` jumps, because a place that came twice would come for ever
(`OrbitEnds`); so `Settles` is where the orbit rests, if it does. The jumps of the optimiser's chain
and the place they all get have the same end before the rewriting (`ChainReaches`), and after it each
is one jump away from that place or from one that was (`ChainNext`); `RedirectedReaches` concludes
for all places, in both directions. Chains that close to a circle need no case of their own.

## Stacks and instructions

`FiclStack` states `ficlStackCheck` and the operations of `stack.c` as operators on sequences; a
cell read outside is `Wild`. `FiclInstructions` gives every instruction of the inner loop that
computes as a function on a machine of three stacks and memory, with the check it makes before
it. `CHECK_STACK(pop, push)` is a claim about the code behind it, written by hand at each of
164 places: `ChecksRight` says that what passes keeps within the stacks and that
nothing else is refused. `StackComments` compares the moves of the ten shuffle words, made by one C
assignment after the other, with the stack comments; `PhrasesAgree` compares the fused instructions
with the phrases that
comments in `vm.c` call equivalent. Float arithmetic is a parameter: four floats, one not a number.

Rules: `dup_of_something` (`DUP` does not check for a cell to copy, `vm.c:641`; with this
rule no property watches that half of the hazard), `pick_above_n` (`PICK`
checks its depth while its argument is still there, `vm.c:716`), `loop_words_fit` (`I`, `J`, `K`,
`RANDOM` check nothing). `Small` keeps to states with few cells at a time, or a return stack of
three loops: an instruction reads six cells at most.

`FiclCells` has cells of `Bits` bits with wraparound and the routines of `double.c` for a build
without a double-width integer; `FiclMath` puts them on a stack that literals fill, and `MCInstructions`
runs it beside the instructions, on cells of its own, with every operand of four bits: the shifts,
carries and sign corrections do not depend
on the width. Division by zero is excluded: it traps, or never ends.

## Text in and out

`FiclNumbers`: reading integers, doubles and floats, writing them in every base, `SPRINTF`.
`FiclText`: the input line and its parsers (`ficlVmGetWord0`, `ficlVmParseStringEx`, comments), the
interpreter's handling of a token that is a number, `S"` and `C"`, `TYPE`, `.`, `.(`, `ACCEPT`,
pictured numbers. Data space is characters from `here` on. A history variable, `taken`, keeps the
pieces of a line. A printed line keeps its format and arguments, so that what was written can be
compared with what a buffer with room for all would hold.

The properties are round trips and covers: every character of a line belongs to one piece or is a
delimiter (`LinesRead`); a token is a number exactly if it is spelt as one, in both directions, and
then that number (`NumbersRead`); `C"` strings last (`StringsKept`); what is printed reads back as what
was given (`OutputExact`). A number may end in a point and then stands for two cells, a zero and the
value (`3.` is `0 3` in `test/ficltest.fr:97`). In base 16 an `e` is a digit. Of `SPRINTF`,
`SprintfFits`
says that the flag is set exactly if all that the format asks for fits, that then all of it is
written, that in any case what comes before the first piece without room is, that this piece is the
last that is written, and that every argument is eaten.

Also met, where the code is not what its comments say:

- Of a number with a point, met while compiling, only the upper cell is compiled; the zero is pushed
  at once, onto the control tags (`vm.c:2925`, where `vm.c:3030` says that it is compiled). `NumbersMean`
  takes
  what is pushed and what is compiled together.
- `SPRINTF`'s flag is true when all was written, not when space ran out (`primitives.c:360`, `490`).
- `%%` writes nothing and its second sign begins the next directive, since `case '%'` has no `break`
  and `continue` does not step past it (`primitives.c:357`, `457`).
- The piece that runs out of space is copied with its whole length, past the end of the buffer
  (`primitives.c:480`). `SprintfFits` allows that, and for this one piece only.

Rules: `short_tokens`, `short_strings` (a count of one byte holds the length), `fresh_strings` (`S"`,
`C"` and `TYPE` write at `here` without moving it, over one another), `wide_fields` (a field that is
too narrow for its number). Bounds: all lines of up to three characters out of five kinds, and longer
ones that pass the count, spell floats or mix digits; cells of five bits, so that the most negative
cell is among those printed; a count of three bits.

## Systems, virtual machines and the lock

`FiclSystem` has several systems, each with its list of VMs, its output function and its
dictionary; and the threads of a build with `FICL_WANT_MULTITHREADED`, in which the host
supplies `ficlDictionaryLock`. Such a lock has to count nested calls, because `ficlDictionary...`
functions that lock call one another; it is modelled as that. A step of a VM is what it does
between two accesses to the dictionary that another thread can come between: before the lock,
within it, and the unlocked `*dictionary->here++ = c` as a read and a write.

What the code does without the rules:

- `lookup_with_locals`: `ficlDictionaryLookup` locks on entry and locks again where it should
  unlock (`dictionary.c:622`). Any lookup by a VM that shares a dictionary keeps the others out
  for ever. Only the lookup of locals, while a definition with locals is compiled, unlocks.
- `order_fits`: `SEARCH>` and `>SEARCH` throw while they hold the lock (`search.c:261`).
- `order_still`: `GET-ORDER` counts the wordlists before it takes the lock (`search.c:111`). That
  `DictionaryShared` holds of this count is due to the rule; the code does nothing for it.
- `one_session`: `smudge` and `here` belong to the system: a definition of another VM between
  `:` and `;` becomes the one that `;` finishes, and unlocked cells are lost.
- `idle_destroyed`: a VM, or a system, is destroyed while it runs.
- `first_system_last`: `ficlSystemDestroy` clears its own pointer before it compares it with
  `ficlSystemGlobal` (`system.c:286`), so output without a function of its own goes on through
  the freed system.

Bounds: two systems tell the global one from another, two VMs race, `MaxNested` bounds the count
that lookups leave.

Proofs. `FiclSystemProofs` proves, for any number of systems, of virtual machines and of wordlists
and any length of dictionary and search order, that hosts and programs that keep the six rules
(`Careful`) never break `LockMatches` (`AlwaysLockMatches`), `DictionaryShared`
(`AlwaysDictionaryShared`) or `NothingOutlives` (`AlwaysNothingOutlives`). The inductive invariant
(`Invariance`) adds to these where an operation can be (`PlaceSound`), what a VM knows of its
dictionary from the moment it starts to wait for the lock (`Knows`), and which operations two VMs
of one system never have under way at the same time (`Apart`): without it the count of lists that
`GET-ORDER` read before it waits, or the definition that is open across several locks, could be lost
to another VM between two steps. `VmStep` is the one lemma about interference: a step may change
the lock only from and to its own VM or nobody, the cells only where nobody else has read `here` or
has a definition open, and the length of the search order only where nobody else goes by it. Each
step of a VM is then shown to be such a step, most through `PlainStep` (no lock), `EndStep` or
`LeaveStep` (one release). The steps of the host need `AddFacts` and `RemoveFacts`, which say what
linking and unlinking do to a list of any length. `EveryoneGetsIn` rests on fairness and is only
model-checked.

## The debugger

`FiclDebugger`: `STEP-BREAK` written over an instruction, the system's one record of it, the inner
loop's copies of IP and stack tops, and nested `ficlVmExecuteString` in which commands are read.
`CodeRecoverable`: at most one instruction is overwritten, the record can restore it, and whoever
is asked for a command has whole code. `FollowsProgram`, of every session, whatever commands it has
and on whatever lines: a step is one that the program could do without breakpoints (`PlainStep`), or
it is the end of an inner loop by a throw (`HandlerStep`), which puts back an `ip` and stack tops that
this loop has had and leaves the cells of the stacks alone. So breakpoints, steps and commands
neither skip an instruction nor run one twice; what goes on elsewhere went there when a string ended.

That is not always where the program was. The prompt returns through `ficlVmThrow`, and the handler of
the inner loop that called `step-break` writes its own copies to the VM (`vm.c:291`). So what the line
of `x` leaves on the data stack is gone when the next command is asked for, since `step-break` throws
after that line (`tools.c:516`), though `debugger.ht:58` says that it is preserved: `DebuggerLine`
shows it with a history variable (`LinePreserved` in `MCDebuggerLine`). Likewise `step-break` sets
`ip` to the breakpoint (`tools.c:420`), but a command that is typed on another line finds the program
behind it, and the instruction there is left out; `FollowsProgram` counts that as the handler's step.

Rules: `over_returns` (a call stepped over comes back; after a throw its breakpoint would stay in
the code, `tools.c:371`), `not_into_debug_xt` (stepping into `DEBUG-XT` sets the breakpoint twice and
loses the record of the first, `tools.c:312`), `word_for_debug_xt` (`DEBUG-XT` pops without a check,
`tools.c:298`; what it would find below the stack has no model, so this rule cannot be left out).

Bounds. Of two words one calls the other in a `BEGIN ... UNTIL`, so that the breakpoint is met again,
in a loop and after a return; two nested sessions let a command be asked for while another one is
being run. `Bounded` follows `x` only where the program stands at its breakpoint: after a command on
another line it may be anywhere, and lines of `x` from there multiply the states without end. One VM
uses the debugger, although the breakpoint belongs to the system.

Proofs. `FiclDebuggerProofs` proves, for every program of calls, branches, conditional branches,
exits and other instructions, every size of the two stacks and any depth of sessions, with one
assumption beyond those of `FiclDebugger` (`Careful`: `over_returns` and `not_into_debug_xt`):
`Recoverable` (`CodeRecoverable`), `DebuggerFollowsProgram` (`FollowsProgram`) and the invariant both
rest on (`Invariant`). `CodeRecoverable` is not inductive: it says that the loop is running while an
instruction is overwritten, and a step leaves the loop when it runs out of definitions or throws.
`BreakpointAhead` says why it cannot get there first: as long as an instruction is overwritten the
program is at it, or at the call before it, or in definitions that all return to it (`Reaches`).
`CallReaches` and `ExitReaches` are the two steps that change which of these holds, `RunsReach` puts
them together for every instruction. `FollowsProgram` follows, since `vm` is only changed by
instructions as they were compiled, by the texts of the host, and by handlers: `CatchFollows` says
that these write copies which the loop took when it began or fetched last (`SpilledHeld`) and touch no
cell of a stack (`CellsStay`).

## Files and sources

`FiclFiles`: names, inodes and the stdio record of each open file with its position, mode and the
characters not yet written; and the stack of sources that `INCLUDE-FILE` and `EVALUATE` make.
`LinesWhole`: the lines `READ-LINE` has brought are the text between where it began and where the
file stands, in which a piece may only have lost a carriage return that it ended with: `READ-LINE`
takes off a `\r` as it takes off a `\n` (`fileaccess.c:277`), so a text cut behind a carriage return
loses it and looks like a finished line. `WritesKept`: the file says what was written, through
buffers, positions, sizes and append mode; `SourceNamesText`: `SOURCE-ID` names the source being
read, however sources nest and are left by errors. `OPEN-FILE` with `FICL_FAM_APPEND` fails, for
`ficlFileOpen` has no case for it and `fopen` refuses the mode that is left (`fileaccess.c:42`).

Rules: `room_for_a_character` (with no room for one, an empty line looks like the end,
`fileaccess.c:277`), `no_nul` (growing a file fills it with NULs, which end a line for `fgets`),
`flushed` (`FILE-SIZE` and `RESIZE-FILE` ask the descriptor, past the buffer of stdio),
`plain_files` (`READ-LINE` on a file that is also written), `written_alone` (a file that one
`ficlFile` writes has no other: each has a buffer of its own, which goes out when it will),
`source_left_open` (the file being included is not closed or included again, though `source-id
close-file` may say so, `fileaccess.c:101`, `187`: `INCLUDE-FILE` would go on with a freed record) and
`own_codes_caught`. The last is dropped in `SwallowedThrow`: `INCLUDE-FILE` rethrows what is below
zero only (`fileaccess.c:213`), though
`doc/source/releases.ht:177` says that it rethrows; a code of the program's own has by then reset
the VM, and the inner loop goes on from an IP that is NULL.

Also met: `REFILL` in an included file gives up the rest of it, since the file is read as one string;
a throw out of an included file leaves the file open. Names are model values: that `OPEN-FILE` copies
one of any length into `filename[256]` (`fileaccess.c:68`) is not modelled.

Bounds. Two files that may be two handles of one inode, or of a name that has moved to another one,
and a text that includes or evaluates a second; texts of three characters hold an empty line, a
line that is cut, before and behind a carriage return, and a last line without a newline.

Proofs. `FiclFilesProofs` proves, for any number of files, names and inodes, texts and lines of any
length, any depth of sources and a limit of any size, from the assumptions of `FiclFiles`:

- `SourcesNamed`: `SourceNamesText`, of programs that keep `source_left_open`. The invariant
  `SourcesSound` says of every
  source what `SourceNamesText` says of the innermost, and that no file is included twice at a
  time; `StackedPush`, `StackedPop` and `StackedRest` do so for any stack of sources.
- `WrittenStays`: `WritesKept`, of programs that keep `no_nul`, `flushed`, `written_alone` and
  `source_left_open`. It needs that a file that is written is open once (`Exclusive`) and what the
  buffer of stdio may hold
  (`PendingSound`). A buffered text goes out over what is there, or at the end, whichever place the
  next read, seek or close finds; `OverTwice` and `OverEnd` say that writing in two pieces, or in one,
  leaves the same text.
- `LinesComeWhole`: `LinesWhole`, of programs that keep all rules but `own_codes_caught`. Besides
  the above it
  needs `PlainHost` (no NULs; what is in the buffer leaves no gap; a file that is only read stands
  in its text, at the end once it is said to) and `LinesSound`, which says what `LinesWhole` does, of a
  file that is not written, with stdio's end-of-file flag for the end of the text. One `READ-LINE`
  takes a piece of the text, ended by its first newline, by the room or by the end; each of the
  three adds to the lines just what lies between the old place and the new, but for a carriage return
  at its end.

`HostSteps` sorts the steps of `Next` by what they do to files; a lemma says of each what it keeps
(`Updates` is the common shape of those that change one open file and its text).

## The compressed softcore

`FiclLz`: compressor, header and decompressor, each with its own window, one action for each turn of
their loops. `WholeText` is a liveness property: the decompressor stops exactly at the end of the
stream with the whole text. It is the 32-bit build: the compressor takes the bits of a token from
an `unsigned long` whose order was swapped as 32 bits. Rule `header_lengths`: a length of 252 is
written in one byte that the decompressor reads as the mark of a longer one, 65536 in two bytes as
zero (`lzcompress.c:69`). The second, and with it the header of four bytes, lies outside the bounds and
is not watched. The bounds make each field two or three bits, so that texts of eight are
longer than the window and the buffer together.

## Proved, checked, left out

Proved for all values of the constants: the theorems listed under Proofs above. Only
model-checked:

- `ThrowLands`, `EveryoneGetsIn` and `WholeText`: they rest on fairness, which the prover does not
  reason about;
- of `FiclCompile`, `BranchesFollowStructure`, which compares the jumps with a reading of the source
  by counting words, where a proof is an induction over the source;
- what `FiclInstructions`, `FiclText`, `FiclMath` and `FiclLz` say: these fold over sequences or
  numbers with recursive operators, their own or the community modules', which the prover does not
  take, and a proof would be an induction over data.

Bounds of types. A module keeps a `TypeOK` where a proof or the safety of memory rests on it
(`FiclDictionary`, `FiclException`, `FiclDataSpace`; of `FiclSystem` the types are in the proof's
invariant); elsewhere the other properties fail first.

Not modelled:

- Prefixes (`prefix.c`): a list of words looked up at the front of a token. The parse step hands the
  rest to the text and number parsers modelled above.
- `SEE`, `WORDS`, `.ENV`, `.HASH` and the like, which print and change nothing; the environment
  dictionary, a second `ficlDictionary` that is only added to and looked up.
- Rounding of floats and their printing: IEEE arithmetic is out of TLC's reach.
- The softcore's Forth programs (object system, strings, local syntax) but for `MARKER`: clients of
  the core. `softcore.c` and `softcore` helpers are generated from them.
- The compatibility layer, but for the global system: new names for old ones.
- `extras.cpp`, `ficl-plc.cpp`, `ficl++.cpp`, `split.cpp`: host primitives over sockets, shared memory
  and libraries that are not part of the repository.
- The lengths of names beyond the bytes they take: a name longer than `FICL_NAME_LENGTH` is cut but
  keeps its full length (`dictionary.c:328`), which only `>NAME` would show.
