------------------------------- MODULE DSAKey -------------------------------
(***************************************************************************)
(* The DSA key object of _fastmath.c, as DSA.py uses it: it signs with a   *)
(* private key only, and with a k it checked.  0 is an mpz_t nothing was   *)
(* stored in.                                                              *)
(***************************************************************************)
EXTENDS Mpz

CONSTANTS
  Groups,    \* [p, q, g]: g has order q modulo p
  Messages,  \* hashes, of any size
  Ks         \* values of k a caller gives

VARIABLES
  keyobj,   \* dsaKey: y g p q x
  signer,   \* history: the key that signed last, without its x
  message,  \* what was signed last
  k,        \* with which k
  sig,      \* the signature: r and s
  result    \* of the last call

vars == <<keyobj, signer, message, k, sig, result>>

NoKey == [y |-> 0, g |-> 0, p |-> 0, q |-> 0, x |-> 0]
NoSig == [r |-> 0, s |-> 0]

Init ==
  /\ keyobj = NoKey /\ signer = NoKey /\ message = 0 /\ k = 0 /\ sig = NoSig /\ result = "none"

\* x is not given with a public key.
dsaKey_new(G, x, private) ==
  /\ keyobj = NoKey
  /\ keyobj' = [y |-> Powm(G.g, x, G.p), g |-> G.g, p |-> G.p, q |-> G.q,
                x |-> IF private THEN x ELSE 0]
  /\ result' = "none" /\ UNCHANGED <<signer, message, k, sig>>

dsaKey_dealloc ==
  keyobj # NoKey /\ keyobj' = NoKey /\ result' = "none" /\ UNCHANGED <<signer, message, k, sig>>

has_private == keyobj.x # 0
Public(key) == [key EXCEPT !.x = 0]

dsaSign_NoReduction(m, K) ==
  LET r == Powm(keyobj.g, K, keyobj.p) % keyobj.q
  IN [r |-> r, s |-> Invert(K, keyobj.q) * (m + (keyobj.x * r))]

dsaSign(m, K) ==
  LET r == Powm(keyobj.g, K, keyobj.p) % keyobj.q
  IN [r |-> r, s |-> (Invert(K, keyobj.q) * (m + (keyobj.x * r))) % keyobj.q]

dsaKey__sign(m, K) ==
  /\ keyobj # NoKey /\ has_private
  /\ IF K < 2 \/ K >= keyobj.q
     THEN result' = "ValueError" /\ UNCHANGED <<signer, message, k, sig>>
     ELSE /\ result' = "signed" /\ message' = m /\ k' = K /\ sig' = dsaSign(m, K)
          /\ signer' = Public(keyobj)
  /\ UNCHANGED keyobj

dsaVerify(m, r, s) ==
  /\ r > 0 /\ r < keyobj.q /\ s > 0 /\ s < keyobj.q
  /\ LET w == Invert(s, keyobj.q)
     IN r = ((Powm(keyobj.g, (m * w) % keyobj.q, keyobj.p)
               * Powm(keyobj.y, (r * w) % keyobj.q, keyobj.p)) % keyobj.p) % keyobj.q

\* Verification of the last signature, with this key, for this message.
dsaKey__verify(m) ==
  /\ keyobj # NoKey /\ signer # NoKey
  /\ result' = IF dsaVerify(m, sig.r, sig.s) THEN "accepted" ELSE "rejected"
  /\ UNCHANGED <<keyobj, signer, message, k, sig>>

Next ==
  \/ \E G \in Groups : \E x \in 1 .. (G.q - 1), private \in BOOLEAN : dsaKey_new(G, x, private)
  \/ dsaKey_dealloc
  \/ \E m \in Messages : dsaKey__verify(m) \/ \E K \in Ks : dsaKey__sign(m, K)

Spec == Init /\ [][Next]_vars

-----------------------------------------------------------------------------
(* Properties.                                                             *)

\* What a key signed verifies with any object of the same key, the public one
\* included and after any other calls, just when neither number of the
\* signature came out as 0, which the code does not rule out.
SignatureVerifies ==
  signer # NoKey /\ Public(keyobj) = signer =>
    dsaVerify(message, sig.r, sig.s) = (sig.r # 0 /\ sig.s # 0)

=============================================================================
