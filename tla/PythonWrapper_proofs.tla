------------------------ MODULE PythonWrapper_proofs ------------------------
(* Theorems about PythonWrapper, for any number of threads.                *)
EXTENDS PythonWrapper, TLAPS

\* Before Py_Initialize nobody is anywhere, and there is no GIL to hold.
Untouched ==
  ~interp => gil = NoThread /\ raised = {} /\ \A t \in Threads : at[t] = "java"

\* Who holds the GIL is running Python code or has left by an exception.
HolderRunsOrRaised ==
  gil # NoThread => at[gil] \in {"embedding", "running"} \/ gil \in raised

\* An exception takes its thread out of Python and the GIL with it.
RaisedHoldsGil == \A t \in raised : at[t] = "left" /\ gil = t

IInv == TypeOK /\ Untouched /\ HolderRunsOrRaised /\ RaisedHoldsGil /\ RunsWithGil

\* At the start Python is untouched.
LEMMA IInvInit == Init => IInv
BY DEF Init, IInv, TypeOK, Places, Untouched, HolderRunsOrRaised,
       RaisedHoldsGil, RunsWithGil

\* Each step takes, keeps or gives back the GIL as its return path says.
LEMMA IInvStep ==
  ASSUME IInv, [Next]_vars
  PROVE  IInv'
<1> USE NoThreadAssumption
    DEF IInv, TypeOK, Places, Untouched, HolderRunsOrRaised, RaisedHoldsGil,
        RunsWithGil, Move
<1>1. CASE UNCHANGED vars
  BY <1>1 DEF vars
<1>2. ASSUME NEW t \in Threads, initializePython(t)
      PROVE  IInv'
  BY <1>2 DEF initializePython
<1>3. ASSUME NEW t \in Threads, MainReturns(t)
      PROVE  IInv'
  BY <1>3 DEF MainReturns
<1>4. ASSUME NEW t \in Threads, MainRaises(t)
      PROVE  IInv'
  BY <1>4 DEF MainRaises
<1>5. ASSUME NEW t \in Threads, onAction(t)
      PROVE  IInv'
  BY <1>5 DEF onAction, Ensure
<1>6. ASSUME NEW t \in Threads, GilAcquired(t)
      PROVE  IInv'
  BY <1>6 DEF GilAcquired
<1>7. ASSUME NEW t \in Threads, Yield(t)
      PROVE  IInv'
  BY <1>7 DEF Yield
<1>8. ASSUME NEW t \in Threads, ActionReturns(t)
      PROVE  IInv'
  BY <1>8 DEF ActionReturns
<1>9. ASSUME NEW t \in Threads, ActionRaises(t)
      PROVE  IInv'
  BY <1>9 DEF ActionRaises
<1> HIDE DEF IInv
<1> QED BY <1>1, <1>2, <1>3, <1>4, <1>5, <1>6, <1>7, <1>8, <1>9
        DEF Next, MainEnds, ActionEnds

\* The invariant of the wrapper, which the theorems below read off.
LEMMA IInvariant == Spec => []IInv
BY IInvInit, IInvStep, PTL DEF Spec

\* Python code runs only in the thread that holds the GIL.
THEOREM RunsWithGilHolds == Spec => []RunsWithGil
<1>1. IInv => RunsWithGil
  BY DEF IInv
<1> QED BY <1>1, IInvariant, PTL

\* The two early returns after an exception are the only ways to lose the GIL.
THEOREM GilLostOnlyByRaiseHolds == Spec => []GilLostOnlyByRaise
<1>1. IInv => GilLostOnlyByRaise
  BY NoThreadAssumption DEF IInv, TypeOK, HolderRunsOrRaised, GilLostOnlyByRaise
<1> QED BY <1>1, IInvariant, PTL

\* One exception that leaves on_action or main() is the last: whoever raised
\* keeps the GIL, and no other thread ever runs Python code again.
THEOREM OneRaiseIsFatalHolds == Spec => []OneRaiseIsFatal
<1>1. IInv => OneRaiseIsFatal
  BY DEF IInv, RaisedHoldsGil, OneRaiseIsFatal
<1> QED BY <1>1, IInvariant, PTL

=============================================================================
