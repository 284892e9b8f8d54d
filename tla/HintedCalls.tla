---------------------------- MODULE HintedCalls ----------------------------
(***************************************************************************)
(* The functions of the Cairo library that rely on hints, and the dispatch *)
(* of hints in the Rust runner: one call of one of them per behaviour.     *)
(***************************************************************************)
EXTENDS Uint256Sum, Divmod, KeyNibbles, BlockHeader, HintProcessor

hintedVars == <<vars, callVars>>

(* Calls of uint256_add and uint256_sub have variables of their own.       *)
SumFns == {"uint256_sum"}
SumCalls == [fn : SumFns, hints : {"any"}]

Calls ==
  DivmodCalls \cup WordCalls \cup NoPaddingCalls \cup LeadingZeroesCalls
    \cup NibbleCalls \cup ExtractCalls \cup HeaderCalls \cup ExecuteCalls
    \cup SumCalls

NoSum ==
  /\ operation = "add" /\ carries = NoCarries /\ result = Running
  /\ a = [low |-> 0, high |-> 0] /\ b = a

HintedInit ==
  /\ call \in Calls
  /\ at = "start" /\ ids = <<>> /\ outcome = InProgress
  /\ IF call.fn \in SumFns THEN Init ELSE NoSum

HintedNext ==
  \/ call.fn \in SumFns /\ Next /\ UNCHANGED callVars
  \/ /\ DivmodNext \/ EndiannessNext \/ KeyNibblesNext \/ RlpExtractNext
        \/ BlockHeaderNext \/ HintProcessorNext
     /\ UNCHANGED vars

HintedSpec == HintedInit /\ [][HintedNext]_hintedVars /\ WF_hintedVars(HintedNext)

-----------------------------------------------------------------------------
(* The calls the callers make: the shipped hints, a divisor and a quotient *)
(* in range, a word of n bytes, an index the table serves, bytes the array *)
(* has.  The Rust hint on leading zeroes is left out where it differs.     *)
LegalCall ==
  CASE call.fn \in DivmodFns -> DivmodLegal
    [] call.fn \in WordFns -> call.word < Power(ByteBase)[call.n]
    [] call.fn \in NibbleFns -> IndexServed
    [] call.fn \in LeadingZeroesFns ->
         call.hints = "rust" /\ ScannedHalf # 0 => RsExpectedZeroes = PyExpectedZeroes
    [] call.fn \in BytesFns \cup HashFns -> ExtractLegal
    [] call.fn \in ExecuteFns ->
         call.processor = "extended" /\ call.code \in LibraryHints
    [] OTHER -> TRUE

(* The shipped hints make no check of a legal call fail, and no loop that  *)
(* a hint ends goes on for ever: each such call is answered.               *)
CallsAnswered == at = "start" /\ Shipped /\ LegalCall => <>Answered
=============================================================================
