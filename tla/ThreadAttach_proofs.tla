------------------------- MODULE ThreadAttach_proofs -------------------------
(* Theorems about ThreadAttach, for any sets of threads.                   *)
EXTENDS ThreadAttach, TLAPS

\* A thread that was given a value still has it until its destructor has run,
\* and then it is detached and attaches no more; who has ended has none left.
ValueUntilDetached ==
  /\ \A t \in keyed : t \in specific \/ (t \notin attached /\ at[t] # "running")
  /\ \A t \in Threads : at[t] = "ended" => t \notin specific

IInv == TypeOK /\ EnvIsAttached /\ ValueUntilDetached /\ KeyedEndDetached

\* At the start only the threads of Java are attached.
LEMMA InitIInv == Init => IInv
  BY KindsAssumption DEF Init, IInv, TypeOK, EnvIsAttached, ValueUntilDetached,
     KeyedEndDetached, Threads

\* Every step keeps the types.
LEMMA TypeStep == TypeOK /\ [Next]_vars => TypeOK'
<1> SUFFICES ASSUME TypeOK, [Next]_vars PROVE TypeOK'
  OBVIOUS
<1>1. ASSUME NEW t \in JavaThreads, NEW keyCreated \in BOOLEAN, JNI_OnLoad(t, keyCreated)
      PROVE TypeOK'
  BY <1>1 DEF TypeOK, JNI_OnLoad, Android_JNI_GetEnv, Threads
<1>2. ASSUME NEW t \in Threads, FirstEnv(t) PROVE TypeOK'
  BY <1>2 DEF TypeOK, FirstEnv, Android_JNI_GetEnv
<1>3. ASSUME NEW t \in Threads, LaterEnv(t) PROVE TypeOK'
  BY <1>3 DEF TypeOK, LaterEnv
<1>4. ASSUME NEW t \in Threads, detach(t) PROVE TypeOK'
  BY <1>4 DEF TypeOK, detach
<1>5. ASSUME NEW t \in Threads, Exit(t) PROVE TypeOK'
  BY <1>5 DEF TypeOK, Exit
<1>6. ASSUME NEW t \in Threads, Android_JNI_ThreadDestroyed(t) PROVE TypeOK'
  BY <1>6 DEF TypeOK, Android_JNI_ThreadDestroyed
<1>7. ASSUME NEW t \in Threads, End(t) PROVE TypeOK'
  BY <1>7 DEF TypeOK, End
<1>8. CASE UNCHANGED vars
  BY <1>8 DEF TypeOK, vars
<1> QED BY <1>1, <1>2, <1>3, <1>4, <1>5, <1>6, <1>7, <1>8 DEF Next

\* A value under the key outlives the attachment it stands for in no step.
LEMMA StepIInv == IInv /\ [Next]_vars => IInv'
<1> SUFFICES ASSUME IInv, [Next]_vars
             PROVE (EnvIsAttached /\ ValueUntilDetached /\ KeyedEndDetached)'
  BY TypeStep DEF IInv
<1> USE DEF IInv, TypeOK, EnvIsAttached, ValueUntilDetached, KeyedEndDetached, Runs
<1>1. ASSUME NEW t \in JavaThreads, NEW keyCreated \in BOOLEAN, JNI_OnLoad(t, keyCreated)
      PROVE (EnvIsAttached /\ ValueUntilDetached /\ KeyedEndDetached)'
  <2>1. t \in Threads /\ at[t] = "running"
    BY <1>1 DEF JNI_OnLoad, Threads
  <2> QED BY <1>1, <2>1 DEF JNI_OnLoad, Android_JNI_GetEnv
<1>2. ASSUME NEW t \in Threads, FirstEnv(t)
      PROVE (EnvIsAttached /\ ValueUntilDetached /\ KeyedEndDetached)'
  BY <1>2 DEF FirstEnv, Android_JNI_GetEnv
<1>3. ASSUME NEW t \in Threads, LaterEnv(t)
      PROVE (EnvIsAttached /\ ValueUntilDetached /\ KeyedEndDetached)'
  BY <1>3 DEF LaterEnv
<1>4. ASSUME NEW t \in Threads, detach(t)
      PROVE (EnvIsAttached /\ ValueUntilDetached /\ KeyedEndDetached)'
  BY <1>4 DEF detach
<1>5. ASSUME NEW t \in Threads, Exit(t)
      PROVE (EnvIsAttached /\ ValueUntilDetached /\ KeyedEndDetached)'
  BY <1>5 DEF Exit
<1>6. ASSUME NEW t \in Threads, Android_JNI_ThreadDestroyed(t)
      PROVE (EnvIsAttached /\ ValueUntilDetached /\ KeyedEndDetached)'
  BY <1>6 DEF Android_JNI_ThreadDestroyed
<1>7. ASSUME NEW t \in Threads, End(t)
      PROVE (EnvIsAttached /\ ValueUntilDetached /\ KeyedEndDetached)'
  BY <1>7 DEF End
<1>8. CASE UNCHANGED vars
  BY <1>8 DEF vars
<1> QED BY <1>1, <1>2, <1>3, <1>4, <1>5, <1>6, <1>7, <1>8 DEF Next

\* The invariant of the attachment, which the theorems below read off.
LEMMA Inductive == Spec => []IInv
  BY InitIInv, StepIInv, PTL DEF Spec

\* Who holds an environment is attached, whatever the other threads do.
THEOREM EnvIsAttachedHolds == Spec => []EnvIsAttached
  BY Inductive, PTL DEF IInv

\* Who was given a value under the key does not end attached.
THEOREM KeyedEndDetachedHolds == Spec => []KeyedEndDetached
  BY Inductive, PTL DEF IInv

=============================================================================
