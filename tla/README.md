# Verification of android-epcontrol

`android-epcontrol` is the Android agent of EPControl: a Java service that
enrols the device, downloads an encrypted archive with a Python program,
embeds a Python interpreter and hands the device's events to it. The Python
modules it ships include PyCrypto, whose C code is built with it. This
directory holds TLA+ models of the agent, the TLC runs that check them on
small instances, and TLAPS proofs for any instance. Paths below are
relative to `src/app/src/main/` unless a section says otherwise; `EPCService.java` etc. are in
`java/io/pokesec/epcontrol/`.

## Inventory

### The agent

| Part | State it keeps | Operations | Talks to |
|---|---|---|---|
| Asset bootstrap (`EPCService.java` 91-166, 192-206, 256-382) | `assets.zip`, `assets/`, `settings.json`, `trust.pem`, `downloadRef`, `creationThread`, `isPythonInitialized` | `onCreate`, `downloadAssets`, `onReceive`, `initPython` | DownloadManager (calls, broadcasts), AsyncTask executor, interpreter |
| Enrolment (`HomeFragment.java`, `MainActivity.java`) | `user-settings.json`, the button, the binding `mEPCService` | `enroll`, `onActivityResult`, `onServiceConnected` | scanner activity (result), bootstrap (direct call) |
| Device administrator (`EPCDeviceAdminReceiver.java`) | none | `onEnabled`, `onDisabled` | file system |
| Wake locks (`WakeLockManager.java`) | `mNextId`, `mActiveWakeLocks` | `startWakefulService`, `completeWakefulIntent` | PowerManager, the service's intents |
| Embedded interpreter (`jni/PythonWrapper.cpp`) | the interpreter, its lock (the GIL) | `initializePython`, `onAction`, `releasePython` | Java threads, the Python program (not in this repository) |
| Event delivery (`EPCService.java` 209-245, 384-397; `EPCBroadcastReceiver`, `EPCJobService`, `EPCFirebase*`, `DebugFragment`) | worker threads | receivers, `onStartCommand`, `forceTasksRefresh` | wake locks, interpreter, creation thread |
| Service life cycle (`EPCService.java` 187-189, 248-254) | static `mService`, the native interpreter | constructor, `onDestroy` | all of the above |
| JNI attachment (`jni/pyjniusjni.c`, pyjnius `jnius_env.pxi`) | `mThreadKey`, the cached environment | `JNI_OnLoad`, `Android_JNI_GetEnv`, `ThreadDestroyed`, `get_jnienv`, `detach` | interpreter threads |
| File utilities, log view (`FileUtils.java`, `DebugFragment.java` 81-118) | none | `unzip`, `recursiveDelete`, `sha256`, `bytesToHex`, `refreshLogView` | bootstrap |
| Build scripts (`app/python-deps/*.py`, `tools/build_ndk.py`) | files | download, build, lay out assets | Gradle |
| User interface shell, `org/jnius` proxy | none | | |

### PyCrypto, which is built into the agent

Paths are relative to `src/app/python-deps/native-modules/pycrypto-2.6.1/src/`.
The C code is the larger part of what is compiled here, and each extension
module keeps its own objects; they meet only through Python.

| Part | State it keeps | Operations |
|---|---|---|
| Counters (`_counter.c`) | the bytes of the counter, `carry` | construct, call, `next_value`, two increments, deallocate |
| Cipher modes (`block_template.c`) | IV, offset in the keystream block, the counter it draws from | `ALGnew`, `ALG_Encrypt`, `ALG_Decrypt` |
| Hash objects (`hash_template.c`, `hash_SHA2_template.c`, `MD2.c`, `MD4.c`, `RIPEMD160.c`) | buffer, length, digest state | new, update, copy, digest |
| Hash compression (same files) | the state words | one block |
| Block ciphers (`AES.c`, `libtom/tomcrypt_des.c`, `ARC2.c`, `CAST.c`, `Blowfish.c`) | the key schedule | key set-up, encrypt, decrypt |
| Stream ciphers (`ARC4.c`, `XOR.c`, `stream_template.c`) | permutation and indices; key position | construct, encrypt, decrypt |
| `strxor.c` | none | `strxor`, `strxor_c`, the tests at import |
| RSA, DSA, primes (`_fastmath.c`) | key objects; a search's numbers | construct (and factor), encrypt, decrypt, sign, verify, blind, unblind; `isPrime`, `getStrongPrime` |

### What is hard

In the agent it is concurrency and failure. The main thread, the serial
AsyncTask executor, the DownloadThread, the creation threads, the message and
worker threads and the DownloadManager's own process share files and fields
without locks (only `mActiveWakeLocks` has one). The system kills the process
between any two steps; the files and the DownloadManager's table survive it.
Every failure is answered by a retry, from four different places. In PyCrypto
it is state that spans calls (a chaining value, a keystream offset, a buffer),
the GIL given up in the middle of a call, carries and lengths at their ends,
and loops that draw random numbers until one fits.

What makes each part correct:

* bootstrap: retries do not multiply; the archive and the tree are whole when
  they are used; an enrolled agent does not stop half way;
* enrolment: a scan leads to a download; settings never get lost for good;
* wake locks: the device stays awake while an event is handled and goes back
  to sleep afterwards, whatever happens to the event;
* interpreter: Python code runs under the GIL and gives it back;
* delivery: events reach Python only once it is ready, and all of them do;
* life cycle: a second service instance does not find the first one's
  leftovers;
* attachment: who holds a `JNIEnv` is attached, who has a key is detached;
* counters and CTR: no block is encrypted twice, no keystream byte used twice;
* modes: both ends agree on the chaining value again after an error on the way;
* hashes: the digest depends on the message and not on how it was cut;
* ciphers, strxor: decryption undoes encryption, and the rounds are the
  standard's;
* numbers: private undoes public, signatures verify, the loops end.

## Modules

| Module | Models | What an action is |
|---|---|---|
| `AssetBootstrap` | bootstrap and the scan's result, with process death | one action per step of a thread that others can observe: file states change, a call into the platform, a field is assigned |
| `VerifiedArchive` | abstract: what the service may rely on about `assets.zip` | write, accept, discard, die; `AssetBootstrap` implements it |
| `WakeLockManager` | `WakeLockManager.java` | the critical section in three steps, since the service has the intent after the second |
| `PythonWrapper` | `initializePython`, `onAction` and the GIL | taking, losing and giving back the GIL, each return path |
| `EventDelivery` | `onStartCommand`, its workers, the receivers, `forceTasksRefresh`, the creation thread's end | instantiates the two modules above, whose actions its threads take |
| `ServiceLifecycle` | instances of the service in one process, `releasePython`, threads that outlive their instance | a callback, or a step of a thread |
| `Enrollment` | the enrolment button, the result of a scan, the device administrator | a callback; the writing of the settings in two steps |
| `ThreadAttach` | `pyjniusjni.c` and `get_jnienv`, `detach` | a call, the end of a thread |
| `Counter`, `BlockSource` | counter objects, with increments as functions on bytes; abstract: a source of numbers | construction, a call, deallocation |
| `CtrMode` | CTR mode, with the counter called or gone around | a step of the loop that another thread can get in between |
| `BlockModes` | ECB, CBC, CFB, OFB at both ends of a channel | one pass of the loop |
| `HashPadding`, `HashObject` | buffering and padding of the four implementations as functions; objects | new, update, copy, deallocate |
| `Words` | words of 32 and 64 bits, XOR, rotations | functions |
| `SHA2`, `MDCompress` | compression of SHA-224 to SHA-512; MD2, MD4, RIPEMD-160 | one round, or one group of them |
| `AES`, `DES`, `ARC2`, `CAST`, `Blowfish`, three of them with their `...Tables` | the block ciphers | one round |
| `StreamCipher`, `Strxor` | ARC4 and XOR; `strxor.c` | a call on a piece |
| `Mpz`, `RSAKey`, `DSAKey`, `RabinMiller`, `StrongPrime` | longs to and from GMP and what is used of GMP; keys; `isPrime`; `getStrongPrime` | a method, a base of the factoring, a round of the test, a candidate of the search |
| `MCAssetBootstrap`, `MCEventDelivery` | TLC instances | constants, symmetry, a constraint |
| `MCApp`, `MCTemplates`, `MCPrimitives`, `MCNumbers` | TLC instances of several parts | the parts share no state: a variable chosen at the start says which one acts |
| `AssetBootstrap_proofs`, `WakeLockManager_proofs`, `PythonWrapper_proofs`, `ThreadAttach_proofs`, `App_proofs`, `EventDelivery_proofs`, `Templates_proofs`, `Numbers_proofs` | theorems | |

Definitions named `<Operation>_<Mistake>` are the operation with a plausible
mistake in it. No specification uses them; they stand beside the operation so
that it can be replaced to see that a property notices.

### How the state corresponds to the code

`AssetBootstrap`. `settings`, `zip`, `tree` and `config` stand for the files
by what the code can tell of them: absent, partly written, damaged, whole.
`debug` is the `.debug` file that makes `initPython` skip the unpacking. `dm`
is the DownloadManager's status of each id, `announced` its broadcasts under
way. `pc[t]` says where a caller of `downloadAssets` is: the main thread (in
`onActivityResult`), the executor, or a creation thread, whose unpacking it
also tracks; `ref[t]` is the result of `enqueue` before it is assigned to
`downloadRef`. `dlPc` is the receiver's place in `onReceive` on the
DownloadThread. `src[t]` is what thread `t`'s extraction will amount to: it
becomes "partial" when somebody deletes the tree or truncates the archive
under it. Only sleeping, formatting and logging are left out. Entering the
interpreter a second time, or twice at once, is undefined in
`PythonWrapper.cpp`; the model lets it work, fail or kill the process.

Four variables exist for the properties only. `roots` counts downloads begun
by `onCreate` or a scan rather than by a retry. `torn` says that `assets.zip`
is what a process that died left. `causes` records why the way to Python may
have come to an end in this process: `early` (a broadcast before its id was
assigned), `removed` (`finally` removed another download than its own),
`unbound` (a scan's result before the activity was bound), `failed`
(`initializePython` returned 0). They are reset when the process dies.

`WakeLockManager`. One intent per call of `startWakefulService`. `monitor` is
the call inside the synchronized block; `completeWakefulIntent` is one step
that needs the monitor free. `lock[e]` is the PowerManager's lock, which the
timeout ends. `mNextId` wraps in an int of the machine's kind whose largest
value is `MaxInt`.

`PythonWrapper`. `at[t]` is a Java thread's place: in Java, embedding the
interpreter, waiting in `PyGILState_Ensure`, running Python code, waiting
inside Python code with the GIL dropped, gone. `main()`, which
`initializePython` calls, drops the GIL like any other Python code and comes
back to embedding. A module or function that does not exist returns like a
call that worked, as in the code.

`EventDelivery`. `service[e]` is what `onStartCommand` made of the intent;
`creation` is the thread `join` waits for: running, ending, ended. It sets the
flag (`EPCService.java:374`) before it ends, and in between intents are taken
whose workers really wait in `join` (line 231), while a refresh does not wait.
`onStartCommand` runs on the main
thread, so it waits while a broadcast or a job is inside `startWakefulService`
there; messages come on a thread of their own. Intents are handled in any
order, which includes the order they came in.

`ServiceLifecycle`. `live` and `mService` are the instance the system knows;
`isPythonInitialized` is a field of each. `at[t]` and `of[t]` are a thread's
place and the instance whose code it runs. The receiver calls its own
`initPython` when a download failed and an archive is there
(`EPCService.java:111`), and that of `mService` when one passed the check (line
148): since a receiver can outlive its service, the thread may be a later
instance's, whose flag it sets (`ReceiverInitializes`). A worker reads
`creationThread` once and joins what it read (`ReadCreationThread`, `join`).
`forceTasksRefresh` asks for the flag only, which nothing resets, so it can be
that of a service already destroyed. A download is one step here, since
`AssetBootstrap` has it in detail. `leftovers` exists for the properties: it
says that a receiver or a creation thread outlived its service (`thread`), or
that an initialisation failed (`failed`).

`Enrollment`. A QR code is what `onActivityResult` can tell of it: its scheme,
whether its address is hierarchical, whether it has an `INSTANCE_ID`.
`userSettings` is "partial" from the truncation to the close. `NoScheme` and
`NotHierarchical` are the two exceptions that nobody catches.

`ThreadAttach`. `attached` is what the VM knows; `specific`, who has a value
under `mThreadKey`; `env`, who holds an environment. Only the first caller of
`get_jnienv` goes through `Android_JNI_GetEnv` and gets a key.

`CtrMode`. A keystream byte is named by the counter block it comes from and its
offset, so that `used` and `drawn` can be compared byte by byte. The shortcut
is cut into test, encryption, load and store, which is where the missing GIL
lets another thread in. `fits` says whether the counter's blocks have the
cipher's size; those of another are refused, by the shortcut before the counter
moves and by the call after it (`WrongSize`, `CallFails`). `BlockModes` has the IV of both ends (`sender`,
`receiver`); `since` counts what arrived unchanged since the last change.
`HashObject` has each object's buffer with what has never been written in it as
`Junk`, and the message for comparison.

The ciphers and hashes compute in full width on bytes (`Words`); a word is the
tuple of its bytes, most significant first. `level` counts encryptions less
decryptions of a block. `RabinMiller` has a step for every place where the GIL
is taken or given back: `isPrime` blocks threads for the test, which gives the
lock up for itself and takes it back on the early exit as at its end, and the
draws and the warning have it in between. The numbers are integers; GMP is external, with the
operations `_fastmath.c` calls defined by what they return. `SHIFT`, the bits
of a digit of a Python long, is 2 instead of 15 or 30, so that small numbers
have several digits.

## Runs

| Run | Question | Instance |
|---|---|---|
| `bootstrap_safety` | are downloads, archive, tree and interpreter safe under every interleaving, failure and death? | three download ids, two creation threads, two scans, one death |
| `bootstrap_live` | does an enrolled agent get Python running? | two ids, one creation thread, one scan, one death |
| `duplicate_download` | is a running download ever started again? (yes) | two ids, no death |
| `wakelock` | are locks kept, given back, and numbered properly? | four calls, an int that ends at 3 |
| `gil` | who can lose the GIL, and what then? | four threads |
| `delivery` | awake and ready end to end, with nothing forgotten or kept, and true to the protocols of the two components? | two broadcasts, a message, a start by the activity, a refresh; an int that ends at 3 |
| `delivery_live` | is every event handled? | a broadcast and a message |
| `attach` | is every environment in use that of an attached thread? | two Java threads, three native ones |
| `app` | does a second service in a process find a clean one? what do wrong QR codes leave? | two services, three creation threads, a worker; three scanners |
| `templates` | do modes, counters and hash objects keep their state right across calls? | below |
| `primitives` | are the ciphers and compression functions the published ones? | keys and texts of the repository's own tests, and keys of every length and kind |
| `numbers` | do keys, signatures and prime searches answer rightly, and end? | below |

Properties of the bootstrap (`TypeOK` is its type invariant):

* `OneChain`: live downloads, queued retries, the receiver at work and active
  creation threads together never exceed the downloads begun from outside.
  This is the statement that the four retry paths do not multiply.
* `ExclusiveArchive`: with one download begun in the process, the receiver
  never writes the archive while it is unpacked and no two creation threads
  are active. It does not hold with two, for want of any lock.
* `ZipIntegrity`: a damaged archive is on disk only while the receiver is busy
  with it, or left by a process that died. `ReceiveFailed` unpacks whatever
  archive there is, unchecked, so this is what keeps it safe.
* `ImplementsVerifiedArchive`: the refinement of `VerifiedArchive`. It says of
  steps what `ZipIntegrity` says of states: only the check of the digest turns
  a suspect archive into a sound one.
* `VerifiedBoot`: Python counts as started only on a whole tree and with its
  configuration, under the condition of `ExclusiveArchive` and unless the
  archive was torn.
* `NoSilentStall`: when nothing is left to happen in an enrolled process,
  Python runs or `causes` says why not. Each of the four causes occurs. The
  second scan matters: its result truncates the settings a retry may be
  reading.
* `HeaderHasArchive`: the archive whose digest goes into `If-None-Match` is
  still there; without it `bytesToHex(null)` ends the process. It holds until
  the process has begun a download; afterwards the model contains the crash
  (`HashFails`), which takes two scans.
* `EventuallyPython`: the same as a liveness property. With a second download
  in the process it would fail: two chains can delete each other's archive for
  ever, so that case is excluded in its statement.

Wake locks, interpreter, delivery:

* `LockStaysUntilCompleted`, `CompletedGivesBack` (both except for numbers that
  came round again), `UsableNumber` (0 is never given out). That the timeout
  ends what nobody completes is assumed of the system and not a property;
* `RunsWithGil`, `GilLostOnlyByRaise` (only the two early returns after a
  Python exception lose it), `OneRaiseIsFatal` (and then nobody gets in);
* `PythonReady`: nobody is inside Python before `main()` returned normally, and
  no worker before the creation thread has ended. `AwakeInPython`: the event's
  lock is held meanwhile. `EntryUntilServed`: `mActiveWakeLocks` has an entry
  for an intent from the return of `startWakefulService` until a worker has
  completed it, so that of a dropped intent, or of one whose worker waits for a
  GIL that was lost, it stays for the life of the process, and no other does.
  `EventsHandled`: an event delivered once Python runs is handled, unless an
  exception leaked the GIL;
* the refinements `UsesWakeLocks` (`WLM!Spec`) and `UsesPython` (`PW!Spec`): `EventDelivery`
  calls `PW!Ensure` and `WLM!ReleaseStored` under its own guards, and the
  refinements show that those guards imply the protocols' (the interpreter
  exists; delivered, once, and under the monitor).

Attachment and application:

* `EnvIsAttached`, `KeyedEndDetached`. The process can still be aborted: by a
  thread that came to Java after the first caller and did not detach itself.
* `InitializedMeansUp`: the flag of the living service is right. A receiver of an
  earlier instance that starts `mService`'s thread does not set it too early, and
  no earlier thread takes the interpreter away. Its second part: a worker that is on
  its way into a finalized interpreter, or in it, is one of a service that has
  been destroyed; such workers there are. `EntersNewInterpreter`: two entries need one of the
  `leftovers`. `EventuallyInitialized`: without them, and without a crash, a
  living service gets Python running.
* `BadScanIsForEver`: settings without an `INSTANCE_ID` are never replaced.
  This is an undesirable truth: see the findings.

PyCrypto:

* `ImplementsBlockSource`: a counter object, byte by byte, is the abstract
  source: numbers in order, an error after the last unless it may wrap.
* `KeystreamSound`: the keystream is the encryptions of the blocks drawn, in
  order, none left out or used twice, whatever the calls and whichever calls
  of the counter fail; and ciphers that take turns at a counter (`TakeTurns`:
  they call it, or only one of them has drawn from it yet) never encrypt the
  same number of it.
* `IVsAgree`, `DecryptsWhatWasSent`: after an error in the ciphertext the two
  ends agree on the IV again as soon as a block's worth arrived unchanged
  (OFB: always; ECB: always), and from then on plaintext arrives.
* `DigestIsOfWholeMessage`: the blocks compressed are those of the whole
  message with the algorithm's padding, stated on the message at once.
* `ReturnsToText`, `KnownAnswers`, `RoundsAreFips`: decryption undoes
  encryption from either side; the published answers come out, computed in
  full width; each table-driven round of AES and DES is the round of FIPS 197
  and FIPS 46-3, with the standard's round keys.
* `ReturnsToGiven`: RSA's private operation undoes the public one, for every
  number below n, by the Chinese remainder theorem or without, blinded or not.
  `SignatureVerifies`: DSA signatures verify with every object of the key, and
  of RSA signatures only the right one does. The RSA half is about numbers below
  n: of a signature that is not, `rsaKey__verify` ignores that `rsaEncrypt`
  refused it (`_fastmath.c:940`) and compares it as it came, so for larger
  numbers the property says nothing. `TestIsSound`: primes pass, at
  most the liars' share lets a composite through, a base is left to draw, the
  lock is where Python runs at every step and on every path, and the `True` of a
  draw that failed comes with an exception. A warning that raises
  (`_fastmath.c:1348`) changes none of this. `PrimeIsStrong`: p - 1 and p + 1 have the wanted factors
  and p suits the exponent, unless the two auxiliary primes drawn are equal,
  which the code does not exclude. `LoopsEnd`: factoring and the search for a prime
  end.

### Bounds

`MaxScans` bounds presses of the enrolment button, `MaxKills` process deaths
(those chosen by the system; a crash of the code itself is not counted).
`DownloadIds` are reused once nobody refers to them. Two downloads can be
begun in one process (by `onCreate` and by a scan) and each occupies one id at
a time; a third leaves room for one that outlives its process.
`bootstrap_safety` has the constraint `FewDownloads`, which takes the third id
away once both scans have begun; without it the run has 3.5 million states and
the invariants hold as well. The wake lock run lets the counter come round,
which takes one call more than `MaxInt`. `app` needs two services, since a
third finds nothing a second does not, and three creation threads, so that two
of one instance and one of the other can be about. One worker is as good as
two there: a worker reads what the others wrote and changes nothing but its own
place, so what one of them can meet does not depend on a second; with two the
run passes as well.

`templates`: bytes of one bit and blocks of three, hence CFB segments of one,
two and three bytes, of which two does not divide the block; counters in base 3
of one and two bytes, called past their end; two CTR ciphers on one counter of
two numbers, of every kind and of either size, with or without the shortcut, fed pieces of up
to four bytes until each has used five, which takes it into a second block;
hash blocks of three bytes with the length in two words of four bits, so that
the lower word overflows within a message of 70 bytes, and pieces of up to five
bytes, which fill the buffer and leave a rest. `numbers`: moduli of small primes;
X of 14 bits where the program has 512 and more; two small groups for DSA;
trial division by 2 alone, so that the Rabin-Miller rounds themselves see small
composites. `primitives` encrypts what it encrypted and decrypts what it decrypted at
most once more (ARC2: not at all): more would only repeat the schedule on other
data.

### What the properties leave out

Some hazards show in states a property excepts, because there the code does what
the hazard says. `causes` excepts the cancelled retry, the broadcast that comes
too early and the scan's result without a binding from `NoSilentStall` and
`EventuallyPython`; these show that nothing else stops the agent.
`HeaderHasArchive` ends where the crash it is about can come. `EventsHandled` says
nothing once an exception has leaked the GIL, nor `EntersNewInterpreter` and
`EventuallyInitialized` after a failed initialisation or with threads of an
earlier service about. `BadScanIsForEver` is about useless settings; good ones a
second scan may replace. `KeyedEndDetached` is about threads with a key, and
`PrimeIsStrong` about searches in which no draw failed. `ThreadAttach` does not
follow environments that Python code keeps for itself.

### Fairness

`AssetBootstrap!Fairness`: threads run (WF); the system restarts a
`START_STICKY` service (WF on `onCreate`) and ends downloads (WF on `Finish`);
what is retried for ever succeeds once: downloads, copies and extractions
(SF on `Finish(i, "success")`, `CopyEnds("good")`, `Unzipped`). The last three
are assumptions about the network and the device; without them the agent
retries for ever, as it should. Nobody need press a button or scan anything.
`ServiceLifecycle!Fairness` assumes the same of the coarser steps.
`EventDelivery!Fairness`: threads run, those in the monitor and the creation
thread on its way to its end included; timeouts happen; Python code ends, also
`main()`, which gives the GIL up and takes it back meanwhile, and CPython hands
the GIL round to all who wait for it (SF), which its forced switching does.
`WakeLockManager` and `PythonWrapper` by themselves are checked for safety
only. `RSAKey` and `StrongPrime`: a loop that can go on does (WF);
the caller need not call.

Where `CHECK_DEADLOCK FALSE` stands the system really may stop: an idle service
waits, instances with finitely many events, calls or threads end, a failed
import stays failed. `Numbers.cfg` checks for deadlock.

## Findings

* `duplicate_download`: `downloadAssets` looks for its address among the
  running downloads with `uri == Uri.parse(...)` (`EPCService.java:318`),
  which compares references and is never true. The branch that logs "Assets
  already downloading" (line 337) is dead, and a second download starts.
* `templates`: `allow_wraparound` means in `_counter.c:278` the contrary of what
  `Counter.py:86-89` says of it. The code refuses to go round without it and
  starts over with it, and this is the `BlockSource` the counter implements.
* `app`: on a code of the wrong scheme `onActivityResult` says "Wrong QR Code
  provided" (`HomeFragment.java:94`) and goes on to replace the settings (line
  96). The button is gone from then on, and `BadScanIsForEver` holds: nothing
  in the application makes such settings go away. The device administrator
  that might deletes `user_settings.json` (`EPCDeviceAdminReceiver.java:50`)
  where everybody else says `user-settings.json`.

Behaviours of the agent that the models contain and that no document of the
repository contradicts: `finally` may cancel the retry's download
(`EPCService.java:164`); a broadcast may come before `downloadRef` is assigned
(line 333); a torn archive may be unpacked after a crash (line 110-111);
`on_action` raising once shuts every later event out of Python
(`PythonWrapper.cpp:256`); intents that come before Python runs are dropped,
their wake locks only time out and their entries stay (`EPCService.java:211`;
`EntryUntilServed`); `onDestroy`
finalizes the interpreter without the GIL while workers may be in it (line
253); a QR code whose address is not hierarchical, or no address, ends the
process (`HomeFragment.java:93`, `:99`).

Of PyCrypto:

* two ciphers with the shortcut on one counter object can encrypt the same
  counter value, for the shortcut works on the counter without the GIL
  (`block_template.c:412`); `CtrMode!UniqueCounterValues` with `Shortcuts <-
  {TRUE}` and two threads shows it. Whether one counter may serve two ciphers
  at once is said nowhere, so no run has that instance;
* a counter object whose construction fails after the allocation is not freed
  (`_counter.c:489`, `:515`): `leaked` in `Counter`;
* the overflow of the length reported by `add_length` reaches nobody
  (`hash_SHA2_template.c:97`); it takes 2^64 bits;
* `isPrime` takes the error of the Rabin-Miller test for a yes
  (`_fastmath.c:1383`), so an exception of `randfunc` is raised after all the
  work (`noBase`, `noNumber` in `MCNumbers`);
* `getRandomNBitInteger` sets a bit beyond those asked for (`_fastmath.c:1257`);
* `strxor` of two empty strings fails its assertion (`strxor.c:45`).

## Proofs

All are by TLAPS, for any values of the constants that satisfy the named
assumptions (`IdsAssumption`: 0 is no download id; `ThreadsAssumption`: the
creation threads are not called "main" or "async"; `MaxIntAssumption`;
`NoIntentAssumption`; `NoThreadAssumption`; `KindsAssumption`;
`InstancesAssumption`; `ApartAssumption`: intents, refreshes and the creation
thread are different threads; and of
`BlockModes` the block size is positive (`SizeAssumption`), XOR with the same
byte undoes itself (`XorAssumption`), decryption undoes encryption
(`CipherAssumption`)). Those of the numbers stand with their proofs below.

* `AssetBootstrap_proofs!TypeCorrect`: `Spec => []TypeOK`, one lemma per actor.
  `DieType` is shared by the three ways a process ends.
* `ZipIntegrityHolds`: `ZipIntegrity` is inductive given types: each step that
  leaves the writing places of the receiver either found the archive good or
  has deleted it, and dying sets `torn`.
* `ImplementsVerifiedArchiveHolds`: the refinement. Each step of the receiver
  and each death is mapped to a step of `VerifiedArchive`, every other step to
  a stutter, given types and `ZipIntegrity`.
* `OneChainHolds`: `Chain` counts, besides the `Tokens`, a Python that runs
  (`Started`), since the download that led to it is spent: without it, finding
  Python running and starting again would look free. Every step that adds a
  token takes one (`Balance`, `EnqueueChain`, `OnReceiveChain`), but for the
  download of `onCreate` or of a scan, which adds a root. The sets that are
  counted are finite because one element enters at a time, which is part of the
  invariant and not assumed (`Counted`).
* `ExclusiveArchiveHolds`: two activities at once would be two tokens (`Alone`).
  `VerifiedBootHolds` needs more: `SoundBoot` says what the one creation thread
  has made true at each of its steps, and `Alone` that nobody is there to undo
  it.
* `NoSilentStallHolds` by `Chained`: in an enrolled agent without a recorded
  cause a task is queued, a thread is at work, the receiver is, the download the
  service refers to runs or was announced, or Python runs (`GoesOn`). It needs
  that each id is with one holder (`IdsHeld`), that the DownloadManager
  still has to say something of it (`IdsAnswered`), and that nobody is at work
  without a process (`Still`).
* `HeaderHasArchiveHolds`: from `Fresh`, which says what a process has not
  done yet while `roots = 0`: no reference, no thread, no retry, and the
  archive that `onCreate` saw still there. `HeaderHasArchive` alone is not
  inductive, since it does not say that nobody is about to delete the file.
* `WakeLockManager_proofs`: `IInv` joins to the two properties what makes them
  inductive: the monitor is held exactly between a call's first and last step
  (`MonitorHeld`), hence nobody completes an intent in between
  (`CompletedReturned`); an entry of the map is under its intent's number
  (`StoredUnderItsNumber`); numbers are given once and stay (`Numbered`,
  `ReusedStays`). From it `TypeCorrect`, `LockStaysHolds`, `GivesBackHolds`
  and `UsableNumberHolds`.
* `PythonWrapper_proofs`: `IInv` adds who may hold the GIL
  (`HolderRunsOrRaised`, `RaisedHoldsGil`) and that nobody is inside before
  `Py_Initialize` (`Untouched`, without which `initializePython` could take
  the GIL from its holder). From it `RunsWithGilHolds`,
  `GilLostOnlyByRaiseHolds` and `OneRaiseIsFatalHolds`.
* `ThreadAttach_proofs`: `IInv` adds to the two properties that a thread once
  given a value has it until its destructor has run (`ValueUntilDetached`);
  from it `EnvIsAttachedHolds` and `KeyedEndDetachedHolds`.
* `App_proofs`, of `ServiceLifecycle`: `IInv` says when things happen: nothing works for
  an instance that was not constructed, nobody finalizes while a service lives
  (`InTheirTime`), a creation thread of the living service that entered the
  interpreter has it (`EnteredHasInterpreter`), whoever started that thread, a
  worker of an instance found its flag set (`WorkersHaveFlag`), and in a process nothing was
  left behind in, one thing at a time is on the way to Python (`OneWay`: the
  download, the receiver or one creation thread). From it
  `InitializedMeansUpHolds` and, by `OneWay`, `EntersNewHolds`.
* `App_proofs`, of `Enrollment`: `BadScanIsForEverHolds`, an action property,
  from `NoButtonWithSettings`: where there are settings, an activity that takes
  clicks shows no button, because `onResume` has looked, and settings are
  written only while no activity takes clicks.
* `EventDelivery_proofs`: only the creation thread embeds (`CreationEmbeds`),
  the flag is set after a `main()` that did not raise (`FlagIsRight`), only a
  flagged service makes workers (`WorkersCameLater`), and what a worker came to
  its wake lock came to (`ServedWereDelivered`). `EntryUntilServedHolds` rests on
  the invariant of `WakeLockManager`, taken over through the refinement, and on
  that a worker completes its intent as it ends. From the invariant `PythonReadyHolds`
  and the two refinements, step by step: `UsesPythonHolds` and
  `UsesWakeLocksHolds`. `AwakeInPythonHolds` takes `LockStaysHolds` over from
  `WakeLockManager_proofs` through the second refinement: an intent that Python
  is busy with (`InPythonActing`) was delivered and is not completed, so its
  lock is held. It is stated for intents whose number is not in use again,
  since a number that came round gives the older lock away.
* `Templates_proofs`, of `BlockSource` as the counter implements it:
  `GivenBelowHolds` and `NeverTwiceHolds`: a source of any size gives no number
  twice in a round.
* `Templates_proofs`, of `BlockModes`: `IVsAgreeHolds` and
  `DecryptsWhatWasSentHolds`, for every cipher, block size and segment size.
  `IVsAgree` is not inductive: the sender is ahead by the segments on their
  way. `Chained` says that each of these is the encryption of its plaintext
  under the IV before it, and that the IVs hand over from one to the next and
  at last to the sender's.
* `Templates_proofs`, of `CtrMode` with any number of numbers in the counter:
  `KeystreamInOrderHolds` by `CtrInv`, which relates the length of `used` to
  the number of blocks `drawn` and to `count` (`Accounted`; in the shortcut
  between its steps a block is encrypted that `count` does not know of), and
  knows that the block in memory is the last one drawn (`LastIsIV`).
  `KeystreamSoundHolds` adds `UniqueInv`: what was given lies behind the
  counter or is the very number the shortcut has not yet counted (`Behind`),
  was given once (`Once`) and to one cipher (`Apart`). It is stated for states
  in which the ciphers have taken turns (`TakeTurns`): with the shortcut and a
  second cipher that draws it is false, as said above. What `Behind` says of the
  shortcut's own steps therefore needs that nobody else has drawn (`Sole`).
* `Templates_proofs`, of `Counter` with any length and base:
  `ImplementsBlockSourceHolds`. The step that gives a number rests on
  `CountsOn`: the loop of either increment, over bytes of either order, adds one
  to the number that `next_value` reads, and carries exactly after the last
  one. This is an induction over the bytes (`IncrementAdds`). The library's
  induction theorems cannot be used, so `Induction` derives the principle for
  sets of naturals from the well-foundedness of `<`, and
  `PrimitiveRecursion` from it that the recursive functions of the model
  exist. With `NeverTwiceHolds`, `CounterNeverTwiceHolds`: no counter object
  gives a number twice in a round.
* `Templates_proofs`, of `HashObject` with the four implementations, messages of
  any bytes and length and pieces of any length: `DigestIsOfWholeMessageHolds`.
  Its hypotheses (`HashParameters`) are that a block holds more than the length
  and that a word counts the bits of a block (`Geometry`), which every variant
  built here satisfies (MD2, which has no length, with any words), and the run's
  instance too. `DigestIsOfWholeMessage` by
  itself says too little of what an object holds; `HashInv` says that every
  object represents its message (`Represents`): the blocks compressed and the
  bytes in the buffer are the message (`Held`), the counted length is that of the blocks (SHA-2, which
  counts when it compresses) or of the message (MD4, RIPEMD-160), in two words
  that overflow (`Counts`), and behind the bytes of RIPEMD-160 there are zeros
  (`Zeroed`). An update is an induction over the bytes of the piece
  (`ProcessHeld`) or the passes of the loop (`FillHeld`, `UpdateHeld`, each pass
  being a step of `FillStep` and `UpdateStep`; `LoopEnds` says that as many
  passes as there were bytes are enough). The digest is one lemma for each
  implementation: `ShaDone`, `RipemdDigest`, `MD4Digest`, `MD2Digest`. That the
  loops terminate and what they compute is thus proved for any input.
* The recursions of `Counter`, `HashPadding` and `Mpz` are written as functions,
  since a module with a theorem may reach no `RECURSIVE` operator.

### The numbers

`Numbers_proofs` proves the four invariants of the run `numbers` for every value
of `MCNumbers`' constants: all sets of keys, groups, numbers, bases, tables and
bounds, any number of bits in a digit. Assumed of them is only what the code
itself is given:

* `ShiftAssumption`: a digit of a Python long has a bit at least;
* `KeysAssumption`: the factors of an RSA key are odd primes, and exponents, the
  numbers tried as d, and those encrypted are not negative;
* `GroupsAssumption`: the order q of a DSA group is prime and g to the power q
  is 1 modulo p. Neither that p is prime nor that q divides p - 1 is needed;
* `TestAssumption`: what the table holds is prime, there is a bound on the
  rounds, and those asked for are not negative (the probability is at most 1).
  The number asked about is any integer;
* `SearchAssumption`: what is drawn are integers.

The library has no number theory, so the module begins with it: residues
(`Cong`), powers as recursive functions, divisors and primes, `EuclidsLemma`
(through the least positive combination), inverses, and `Fermat`, by counting:
the powers of x cut the numbers below p into orbits of one size (`OrbitThere`,
`OrbitsDivide`), which therefore divides p - 1.

* `SignatureVerifiesHolds` has a DSA half and an RSA half. `DsaInv` says that the
  object in use and the one that signed are of a group and that the last
  signature was made with an allowed k; `EquationHolds` is the equation of
  `dsaVerify`, for which exponents may be reduced modulo q (`PowerPeriod`). That
  `rsaVerify` accepts one signature of a number and no other is `OneSignature`:
  raising to e and to d are inverses of each other (`RootAndPower`).
* `ReturnsToGivenHolds`. `RsaInv` relates the number at hand to the one the
  caller began with, as many levels of encryption away as there were
  (`Related`), times a power of the factor while it is blinded (`Masked`), and
  says that a key with its private exponent is whole once it is used: as given,
  with u computed, or with the factors that `factorize_N_from_D` found
  (`FactorsFound`). Decryption without the factors is a power by definition;
  with them it is `Garner`, from `ShortExponent` (Fermat's theorem) and
  `CongProduct`. The numbers go through `longObjToMPZ` and `mpzToLongObj`
  digit by digit on their way, which the section on Python's longs
  shows to be harmless.
* `PrimeIsStrongHolds`. `StrongInv`: while no draw has failed, what the sieve
  leaves and the test accepts is prime, and X is 1 modulo the one factor and -1
  modulo the other from the moment they are combined (`SignedInverses`) through
  every addition of their product (`OneOff` reads the factors of X - 1 and X + 1
  off). With both factors equal it would be false, and nothing excludes that.
  The Rabin-Miller test inside the search is taken to be right, in the model as
  in the theorem; how far that goes is the next item.
* `TestIsSoundHolds`. `TestInv` says that the bases tested are as many different
  liars as there were rounds, where the lock is, and that a result is right or
  comes with an exception (`Settled`); that there is always another base to draw follows
  from the caps on the rounds, which are at most n - 2 and 255. The comment at `_fastmath.c:1326` says that a
  round errs with a probability of a quarter at most; `LiarsFew` proves it for
  every odd composite n: four times the liars are at most n - 1. There are
  three shapes of an odd composite. If the square of a prime divides it, liars
  that the prime does not tell apart its square does not either (`SquareLift`,
  `SquareFactor`), so there are few. If it is the product of two primes
  (`TwoPrimes`), or of three parts that share nothing (`ThreeParts`), the liars
  have three copies of their own size, all apart (`FourCopies`). Every liar has
  a sign modulo each factor at the last square that can be -1 for any number
  (`LastRoot`, `LiarSign`, `DeepRoot`), and signs can be turned one factor at a
  time; with two primes this gives half only, and a number whose power to n - 1
  is not 1 (`NotAllPass`, by `FewRoots`: a polynomial has no more roots modulo a
  prime than its degree) gives the rest. Primes pass because 1 has two roots
  modulo a prime (`RootsOfOne`, `PrimeSquares`).

Only model-checked:

* all liveness (`EventuallyPython`, `EventsHandled`,
  `EventuallyInitialized`, `LoopsEnd`), which like `ENABLED` is out of the
  prover's reach;
* the ciphers and compression functions (`ReturnsToText`, `KnownAnswers`,
  `RoundsAreFips`), which are tables and published values: TLC computes them in
  full width, and there is nothing to quantify over but the data. Several of
  these modules have `RECURSIVE` operators, which no theorem may reach.

Proved and run agree on one model: the constants of the run `numbers` are given
in `Numbers.cfg`, which TLC checks against the assumptions above.

## What remains

* The ciphers that are not tables: that a Feistel round or a pass of ARC2, CAST
  and Blowfish undoes itself in the other direction can be said for any round
  function.
* Jobs: `onStartJob` returns true and no code here calls `jobFinished`, so the
  system keeps the job until its own timeout. Nothing in the repository says
  what should happen; it is listed here and not modelled.

## Not modelled

The user interface shell, the log view and the `org/jnius` proxy, which keep no
state; the build scripts, which run by hand from top to bottom; the rest of
pyjnius, a binding generator in Cython; the Python program itself, which is not
in the repository; the payload of events; proxies and other content of the
settings; permissions. Of PyCrypto: `winrand.c`, which is not built for
Android; the libtom headers, which declare what `tomcrypt_des.c` does not use;
code that no build selects (`FULL_UNROLL`, self-tests); the Python modules that
wrap the C ones; `MODE_PGP`, which is refused; the setting of the IV attribute;
two threads in one hash or stream object at the same time, of which nothing
says what it should give.
