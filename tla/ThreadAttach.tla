---------------------------- MODULE ThreadAttach ----------------------------
(***************************************************************************)
(* pyjniusjni.c with its only client, get_jnienv in pyjnius: how threads   *)
(* that run Python code are attached to the Java VM and detached again.    *)
(* The first caller of get_jnienv goes through Android_JNI_GetEnv, which   *)
(* leaves a value under a pthread key whose destructor detaches the thread;*)
(* later callers attach straight through the JavaVM and leave none.        *)
(*                                                                         *)
(* External: a Java thread is attached from birth and the VM detaches it   *)
(* as it ends; a thread that ends attached otherwise aborts the process.   *)
(***************************************************************************)
CONSTANTS
  JavaThreads,    \* threads the VM created, among them the one that loads us
  NativeThreads   \* threads the Python program created

Threads == JavaThreads \cup NativeThreads

ASSUME KindsAssumption == JavaThreads \cap NativeThreads = {}

VARIABLES
  loaded,      \* JNI_OnLoad has run
  mThreadKey,  \* pthread_key_create succeeded
  default_env, \* pyjnius has cached an environment, and with it the VM
  at,          \* life of each thread
  attached,    \* threads the VM knows
  specific,    \* threads with a value under mThreadKey
  env,         \* threads that hold a JNIEnv get_jnienv returned
  aborted,     \* the VM has ended the process
  keyed        \* history: threads that have ever been given a value

vars == <<loaded, mThreadKey, default_env, at, attached, specific, env, aborted, keyed>>

TypeOK ==
  /\ loaded \in BOOLEAN /\ mThreadKey \in BOOLEAN /\ default_env \in BOOLEAN
  /\ at \in [Threads -> {"running", "exiting", "ended"}]
  /\ attached \subseteq Threads /\ specific \subseteq Threads
  /\ env \subseteq Threads /\ keyed \subseteq Threads
  /\ aborted \in BOOLEAN

Init ==
  /\ loaded = FALSE /\ mThreadKey = FALSE /\ default_env = FALSE
  /\ at = [t \in Threads |-> "running"] /\ attached = JavaThreads
  /\ specific = {} /\ env = {} /\ aborted = FALSE /\ keyed = {}

Runs(t) == ~aborted /\ at[t] = "running"

-----------------------------------------------------------------------------
\* Android_JNI_GetEnv once AttachCurrentThread has not failed.  Without a key
\* pthread_setspecific fails, and nobody looks.
Android_JNI_GetEnv(t, haveKey) ==
  /\ attached' = attached \cup {t}
  /\ specific' = IF haveKey THEN specific \cup {t} ELSE specific
  /\ keyed' = IF haveKey THEN keyed \cup {t} ELSE keyed

\* A failed pthread_key_create is logged and nothing else.
JNI_OnLoad(t, keyCreated) ==
  /\ Runs(t) /\ t \in JavaThreads /\ ~loaded
  /\ loaded' = TRUE /\ mThreadKey' = keyCreated
  /\ Android_JNI_GetEnv(t, keyCreated)
  /\ UNCHANGED <<default_env, at, env, aborted>>

\* get_jnienv, first call: through EPC_AndroidGetJNIEnv.
FirstEnv(t) ==
  /\ Runs(t) /\ loaded /\ ~default_env
  /\ Android_JNI_GetEnv(t, mThreadKey)
  /\ default_env' = TRUE /\ env' = env \cup {t}
  /\ UNCHANGED <<loaded, mThreadKey, at, aborted>>

\* Later calls, of any thread: jvm.AttachCurrentThread alone.
LaterEnv_Cached(t) ==
  /\ Runs(t) /\ default_env
  /\ env' = env \cup {t}
  /\ UNCHANGED <<attached, loaded, mThreadKey, default_env, at, specific, aborted, keyed>>

LaterEnv(t) ==
  /\ Runs(t) /\ default_env
  /\ attached' = attached \cup {t} /\ env' = env \cup {t}
  /\ UNCHANGED <<loaded, mThreadKey, default_env, at, specific, aborted, keyed>>

\* An attachment that fails (only one there is not yet can) changes nothing:
\* the caller has an error and no environment.
get_jnienv(t) == FirstEnv(t) \/ LaterEnv(t)

\* jnius.detach(), called by threads of the Python program.
detach(t) ==
  /\ Runs(t) /\ default_env /\ t \in NativeThreads
  /\ attached' = attached \ {t} /\ env' = env \ {t}
  /\ UNCHANGED <<loaded, mThreadKey, default_env, at, specific, aborted, keyed>>

-----------------------------------------------------------------------------
\* External: the thread's code has returned; the VM lets go of its own threads.
Exit(t) ==
  /\ Runs(t)
  /\ at' = [at EXCEPT ![t] = "exiting"]
  /\ attached' = attached \ (JavaThreads \cap {t}) /\ env' = env \ {t}
  /\ UNCHANGED <<loaded, mThreadKey, default_env, specific, aborted, keyed>>

\* The key's destructor, for a thread that has a value; detaching a thread
\* the VM does not know any more is an error nobody looks at.
Android_JNI_ThreadDestroyed_OnlyClears(t) ==
  /\ ~aborted /\ at[t] = "exiting" /\ t \in specific
  /\ specific' = specific \ {t}
  /\ UNCHANGED <<attached, loaded, mThreadKey, default_env, at, env, aborted, keyed>>

Android_JNI_ThreadDestroyed(t) ==
  /\ ~aborted /\ at[t] = "exiting" /\ t \in specific
  /\ attached' = attached \ {t} /\ specific' = specific \ {t}
  /\ UNCHANGED <<loaded, mThreadKey, default_env, at, env, aborted, keyed>>

\* External: no destructor is left to run.
End(t) ==
  /\ ~aborted /\ at[t] = "exiting" /\ t \notin specific
  /\ at' = [at EXCEPT ![t] = "ended"]
  /\ aborted' = (t \in attached)
  /\ UNCHANGED <<loaded, mThreadKey, default_env, attached, specific, env, keyed>>

Next ==
  \/ \E t \in JavaThreads, keyCreated \in BOOLEAN : JNI_OnLoad(t, keyCreated)
  \/ \E t \in Threads :
       \/ FirstEnv(t) \/ LaterEnv(t) \/ detach(t) \/ Exit(t)
       \/ Android_JNI_ThreadDestroyed(t) \/ End(t)

Spec == Init /\ [][Next]_vars

-----------------------------------------------------------------------------
(* Properties.                                                             *)

\* A thread that holds an environment is attached: neither another thread's
\* end nor the destructor of an earlier use takes it away (pyjniusjni.c:69).
EnvIsAttached == \A t \in env : t \in attached /\ at[t] = "running"

\* A thread that was given a value under the key is detached by its end,
\* however it detached and attached in between.  So the process is aborted
\* only by a thread that came to Java after the first caller and did not
\* detach itself (jnius_env.pxi:16), or for want of the key.
KeyedEndDetached == \A t \in keyed : at[t] = "ended" => t \notin attached

=============================================================================
