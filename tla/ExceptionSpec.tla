--------------------------- MODULE ExceptionSpec ---------------------------
(***************************************************************************)
(* What entering and leaving text, words and CATCH promises, with no C     *)
(* frames, handlers or VM copies: a stack of contexts, each of which knows *)
(* where its caller goes on.  A context that ends goes back there.  A      *)
(* throw ends every context up to the innermost CATCH, which goes on with  *)
(* the data stack it had and the code on top, or else all of them, and the *)
(* host gets the code.  A text that ends in the middle of a parsing word   *)
(* waits, as it stands, for the host to bring more.                        *)
(***************************************************************************)
EXTENDS Integers, Sequences, SequencesExt

CONSTANTS
    Places,     \* where execution can be
    Nowhere,    \* the place of the host
    ThrowCodes  \* the codes of errors and throws

VARIABLES
    contexts,   \* the contexts entered and not left, outermost first
    calls,      \* the places to return to and, last, the place execution is
    depth,      \* the depth of the data stack
    status,     \* what is going on
    code,       \* the code on its way
    result      \* the code the host got last

vars == <<contexts, calls, depth, status, code, result>>

Kinds    == {"string", "xt", "catch"}
AtHost   == <<Nowhere>>
NoCode   == "none"

Callers  == Last(contexts).calls
Catches  == {i \in DOMAIN contexts : contexts[i].kind = "catch"}
LastOf(S) == CHOOSE i \in S : \A j \in S : j <= i

Init ==
    /\ contexts = << >>
    /\ calls = AtHost
    /\ depth = 0
    /\ status = "idle"
    /\ code = NoCode
    /\ result = "out_of_text"

Inside == calls' \in Seq(Places) /\ IsStrictPrefix(Last(contexts').calls, calls')

(* The host brings a text or a word. *)
Start ==
    /\ status = "idle"
    /\ \E k \in Kinds \ {"catch"} : contexts' = <<[kind |-> k, calls |-> AtHost, depth |-> 0]>>
    /\ Inside
    /\ status' = "running"
    /\ UNCHANGED <<depth, code, result>>

(* The program runs inside its innermost context. *)
Work ==
    /\ status = "running"
    /\ UNCHANGED <<contexts, status, code, result>>
    /\ Inside
    /\ depth' \in Nat

(* A text, a word or a CATCH inside the context. *)
Enter ==
    /\ status = "running"
    /\ UNCHANGED <<status, code, result>>
    /\ \E k \in Kinds :
            contexts' = Append(contexts, [kind  |-> k,
                                          calls |-> calls,
                                          depth |-> IF k = "catch" THEN depth' ELSE 0])
    /\ Inside
    /\ depth' \in Nat

(* The innermost context ends. *)
Finish ==
    /\ status = "running"
    /\ contexts' = Front(contexts)
    /\ calls' = Callers
    /\ depth' \in Nat
    /\ status' = "finishing"
    /\ code' \in {"out_of_text", "inner_exit"}
    /\ UNCHANGED result

(* A throw.  The parse step that gives a false flag throws as it ends. *)
Throw ==
    /\ status \in {"running", "finishing"} /\ contexts # << >>
    /\ IF Catches = {}
       THEN /\ contexts' = << >>
            /\ calls' = contexts[1].calls
            /\ depth' \in Nat
       ELSE /\ contexts' = SubSeq(contexts, 1, LastOf(Catches) - 1)
            /\ calls' = contexts[LastOf(Catches)].calls
            /\ depth' = contexts[LastOf(Catches)].depth + 1
    /\ status' = "unwinding"
    /\ code' \in ThrowCodes
    /\ UNCHANGED result

(* The context that goes on, or the host, gets control. *)
Arrive ==
    /\ status \in {"finishing", "unwinding"}
    /\ UNCHANGED <<contexts, calls>>
    /\ IF contexts = << >>
       THEN status' = "idle" /\ result' = code
       ELSE status' = "running" /\ UNCHANGED result
    /\ IF status = "unwinding" /\ contexts # << >> THEN UNCHANGED depth ELSE depth' \in Nat
    /\ code' = NoCode

(* The outermost text is used up inside a parsing word: it waits, with its  *)
(* arguments on the stack, and the host hears that the text is used up.     *)
Wait ==
    /\ status = "running"
    /\ Len(contexts) = 1
    /\ status' = "waiting"
    /\ code' = "out_of_text"
    /\ UNCHANGED <<contexts, calls, depth, result>>

Tell ==
    /\ status = "waiting" /\ code # NoCode
    /\ result' = code
    /\ code' = NoCode
    /\ UNCHANGED <<contexts, calls, depth, status>>

GoOn ==
    /\ status = "waiting" /\ code = NoCode
    /\ status' = "running"
    /\ UNCHANGED <<contexts, calls, depth, code, result>>

Next == Start \/ Work \/ Enter \/ Finish \/ Throw \/ Arrive \/ Wait \/ Tell \/ GoOn

Spec == Init /\ [][Next]_vars
=============================================================================
