------------------------ MODULE ExceptionRefinement ------------------------
(***************************************************************************)
(* FiclException keeps the promise of ExceptionSpec: the C frames are the  *)
(* contexts, their copies and the return stack hold where each caller goes *)
(* on, and a longjmp that several handlers pass on is one throw.           *)
(***************************************************************************)
EXTENDS FiclException, FiniteSets

(* The return stack and the IP, as the loop of frame i left them for the    *)
(* frame above.                                                             *)
CallsOf(tops) ==
    [i \in 1..(tops.return + 1) |-> IF i <= tops.return THEN cells[i] ELSE tops.ip]

ContextOf(i) ==
    [kind  |-> frames[i].fn,
     calls |-> IF i = 1 THEN <<None>> ELSE CallsOf(frames[i - 1].local),
     depth |-> IF frames[i].fn = "catch" THEN frames[i].copy.data ELSE 0]

Waiting == thrown = "restart" \/ (Idle /\ vm.restart)

(* The context a longjmp takes control back to: the number of those below.  *)
CatchFrames == {i \in 1..Depth : frames[i].fn = "catch"}
Landing ==
    IF thrown \in {"out_of_text", "inner_exit"} THEN Depth - 1
    ELSE IF CatchFrames # {} THEN (CHOOSE i \in CatchFrames : \A j \in CatchFrames : j <= i) - 1
    ELSE 0

ContextsNow ==
    IF Waiting THEN <<[kind |-> "string", calls |-> <<None>>, depth |-> 0]>>
    ELSE [i \in 1..(IF thrown = None THEN Depth ELSE Landing) |-> ContextOf(i)]

CallsNow ==
    IF Waiting /\ frames # << >> /\ ~Top.rerun THEN CallsOf(Top.local)
    ELSE IF ~Waiting /\ thrown # None THEN ContextOf(Landing + 1).calls
    ELSE IF Idle /\ (LeftByBye \/ LeftByXT) THEN <<None>>
    ELSE CallsOf(TopsOf(vm))

StatusNow ==
    IF Waiting THEN "waiting"
    ELSE IF thrown \in {"out_of_text", "inner_exit"} THEN "finishing"
    ELSE IF thrown # None THEN "unwinding"
    ELSE IF frames = << >> THEN "idle" ELSE "running"

DepthNow ==
    IF StatusNow # "unwinding" THEN vm.data
    ELSE IF CatchFrames # {} THEN frames[Landing + 1].copy.data + 1 ELSE 0

Promise == INSTANCE ExceptionSpec WITH
    Places     <- Ips,
    Nowhere    <- None,
    ThrowCodes <- Codes,
    contexts   <- ContextsNow,
    calls      <- CallsNow,
    depth      <- DepthNow,
    status     <- StatusNow,
    code       <- IF thrown = "restart" THEN "out_of_text" ELSE thrown,
    result     <- result.code

(* The virtual machine implements ExceptionSpec: a text, a word or a CATCH  *)
(* that ends goes back to where its caller was, a throw goes to the         *)
(* innermost CATCH with its data stack and its return addresses as they     *)
(* were, or to the host, and a text that is used up inside a parsing word   *)
(* goes on where it was (ficlVmExecuteString, ficlVmExecuteXT,              *)
(* ficlPrimitiveCatch).                                                     *)
KeepsPromise == Promise!Spec
=============================================================================
