-------------------------------- MODULE Voprf --------------------------------
(***************************************************************************)
(* The oblivious function of lib/crypto/voprf.ts that anonymous tokens are *)
(* made with.  The group is cyclic of prime order: a point is its          *)
(* exponent, and hashing to the group is a function of the input.  A       *)
(* challenge is the transcript it is the hash of; its value as a scalar,   *)
(* which the hash would give, is handed in.                                *)
(***************************************************************************)
EXTENDS Integers, Sequences

CONSTANTS ORDER,              \* the order of the group
          Inputs              \* numbered inputs, whose points are their numbers
ASSUME OrderIsPrime ==
  /\ ORDER \in Nat \ {0, 1}
  /\ \A n \in 2..(ORDER - 1) : ORDER % n # 0
ASSUME InputsAreHashed == Inputs \subseteq 1..(ORDER - 1)

NoOutput == <<>>
Scalars == 1..(ORDER - 1)

modOrder(n) == n % ORDER
Times(point, scalar) == modOrder(point * scalar)
Minus(p1, p2) == modOrder(p1 + ORDER - p2)
BASE == 1
secretKeyToScalar(bytes) == modOrder(bytes)
publicKey(secretKey) == Times(BASE, secretKeyToScalar(secretKey))
hashToGroup(input) == input

(* A zero, of a random draw or of a seed's hash, is taken as 1. *)
randomScalar(draw) == IF modOrder(draw) = 0 THEN 1 ELSE modOrder(draw)
deriveSecretKey(seed) == randomScalar(seed)

blind(input, r) == Times(hashToGroup(input), r)

computeChallenge(pk, R, Z, T1, T2, scalar) ==
  [transcript |-> <<pk, R, Z, T1, T2>>, scalar |-> scalar]

(* The draw t and the scalar the challenge hashes to. *)
blindEvaluate(secretKey, pk, R, t, scalar) ==
  LET sk == secretKeyToScalar(secretKey)
      Z == Times(R, sk)
      c == computeChallenge(pk, R, Z, Times(BASE, t), Times(R, t), scalar)
  IN [evaluated |-> Z, proof |-> [c |-> c, s |-> modOrder(t + c.scalar * sk)]]

verifyProof(pk, R, Z, proof) ==
  LET c == proof.c.scalar
      T1 == Minus(Times(BASE, proof.s), Times(pk, c))
      T2 == Minus(Times(R, proof.s), Times(Z, c))
  IN computeChallenge(pk, R, Z, T1, T2, c) = proof.c

modPow(base, exp) ==
  LET power[e \in 0..exp] == IF e = 0 THEN 1 ELSE modOrder(power[e - 1] * base)
  IN power[exp]
modInverseMutant(n) == modPow(n, ORDER - 1)
modInverse(n) == modPow(n, ORDER - 2)

finalizeHash(input, issued) == <<"finalize", input, issued>>

finalize(input, r, Z, proof, pk) ==
  IF ~verifyProof(pk, blind(input, r), Z, proof) THEN NoOutput
  ELSE finalizeHash(input, Times(Z, modInverse(r)))

evaluate(secretKey, input) ==
  finalizeHash(input, Times(hashToGroup(input), secretKeyToScalar(secretKey)))

=============================================================================
