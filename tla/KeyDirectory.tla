----------------------------- MODULE KeyDirectory -----------------------------
(***************************************************************************)
(* The key directory: lib/server/api/akd-server.ts, the tree of            *)
(* lib/crypto/akd-merkle.ts and the three routes under routes/api/akd.     *)
(*                                                                         *)
(* A publication is cut at its reads of the database: the latest epoch,    *)
(* for the cadence; the highest id; the accounts; then one batch.  A       *)
(* proof is cut between the epoch's row and its leaves.  Where the         *)
(* verifiable function puts an account in an epoch is drawn when the       *)
(* epoch's key is first derived and stays.  SHA-384 is a constructor.      *)
(***************************************************************************)
EXTENDS Integers, Sequences, SequencesExt, FiniteSetsExt

CONSTANTS Publishers,          \* admin calls that may overlap
          Handles,             \* account ids
          AKD_POS_BITS,        \* levels of the tree: 384 in the code
          AKD_EPOCH_CADENCE,   \* least time between two epochs
          MaxEpochs, MaxTime   \* bounds of the model

VARIABLES accounts,    \* account ids, as listAccountHandles reads them
          epochs,      \* rows of akd_epochs and their leaves, by epoch id
          position,    \* where the epoch's key puts each account
          publisher,   \* what each admin call has read so far
          proof,       \* the proof being built, or the last answer
          now

directoryVars == <<accounts, epochs, position, publisher, proof, now>>

-----------------------------------------------------------------------------
(* akd-merkle.ts: a leaf is a position, as its bits, and a hash. *)

Positions == [1..AKD_POS_BITS -> {0, 1}]
combine(left, right) == <<"node", left, right>>

RECURSIVE EmptyHash(_)
EmptyHash(level) ==
  IF level = 0 THEN <<"zero">>
  ELSE combine(EmptyHash(level - 1), EmptyHash(level - 1))

Side(leaves, depth, bit) == {leaf \in leaves : leaf.pos[depth + 1] = bit}

(* Up from a hash at the bottom, the siblings in order from the root. *)
RECURSIVE Climb(_, _, _, _)
Climb(hash, pos, siblings, depth) ==
  IF depth = Len(siblings) THEN hash
  ELSE LET below == Climb(hash, pos, siblings, depth + 1) IN
       IF pos[depth + 1] = 0 THEN combine(below, siblings[depth + 1])
       ELSE combine(siblings[depth + 1], below)

(* A leaf alone climbs past empty siblings, whatever is above depth. *)
RECURSIVE Alone(_, _)
Alone(leaf, depth) ==
  IF depth = AKD_POS_BITS THEN leaf.hash
  ELSE LET below == Alone(leaf, depth + 1)
           empty == EmptyHash(AKD_POS_BITS - depth - 1) IN
       IF leaf.pos[depth + 1] = 0 THEN combine(below, empty) ELSE combine(empty, below)

RECURSIVE buildAt(_, _)
buildAt(leaves, depth) ==
  IF leaves = {} THEN EmptyHash(AKD_POS_BITS - depth)
  ELSE IF Cardinality(leaves) = 1
  THEN Alone(CHOOSE leaf \in leaves : TRUE, depth)
  ELSE combine(buildAt(Side(leaves, depth, 0), depth + 1),
               buildAt(Side(leaves, depth, 1), depth + 1))

buildMerkleRoot(leaves) == buildAt(leaves, 0)

buildInclusionProofMutant(leaves, target) ==
  LET Above(depth) == {leaf \in leaves :
                         \A d \in 1..depth : leaf.pos[d] = target.pos[d]}
  IN [pos |-> target.pos, leafHash |-> target.hash,
      siblings |-> [d \in 1..AKD_POS_BITS |->
                      buildAt(Side(Above(d - 1), d - 1, target.pos[d]), d)]]

buildInclusionProof(leaves, target) ==
  LET Above(depth) == {leaf \in leaves :
                         \A d \in 1..depth : leaf.pos[d] = target.pos[d]}
  IN [pos |-> target.pos, leafHash |-> target.hash,
      siblings |-> [d \in 1..AKD_POS_BITS |->
                      buildAt(Side(Above(d - 1), d - 1, 1 - target.pos[d]), d)]]

verifyInclusionProof(root, p) ==
  /\ Len(p.siblings) = AKD_POS_BITS
  /\ Climb(p.leafHash, p.pos, p.siblings, 0) = root

-----------------------------------------------------------------------------
NoRow == [epochId |-> 0]
AtRest == [at |-> "rest"]

DirectoryInit ==
  /\ accounts = {}
  /\ epochs = <<>>
  /\ position = <<>>
  /\ publisher = [p \in Publishers |-> AtRest]
  /\ proof = AtRest
  /\ now = 0

(* server-opaque.ts inserts an account when its registration ends. *)
CreateAccount(handle) ==
  /\ handle \notin accounts
  /\ accounts' = accounts \cup {handle}
  /\ UNCHANGED <<epochs, position, publisher, proof, now>>

Tick ==
  /\ now < MaxTime
  /\ now' = now + 1
  /\ UNCHANGED <<accounts, epochs, position, publisher, proof>>

(* Ids are drawn one after another, so the latest is the longest prefix. *)
currentEpoch == IF epochs = <<>> THEN NoRow ELSE epochs[Len(epochs)]

TooSoon(latest) == latest # NoRow /\ now - latest.signedAt < AKD_EPOCH_CADENCE

(* The publish route: the token is right, the cadence has passed. *)
Publish(p) ==
  /\ publisher[p].at = "rest"
  /\ ~TooSoon(currentEpoch)
  /\ publisher' = [publisher EXCEPT
       ![p] = [at |-> "guarded", saw |-> currentEpoch.epochId]]
  /\ UNCHANGED <<accounts, epochs, position, proof, now>>

(* The id decides the epoch's key, and the key the positions. *)
deriveEpochSigningKey(id) ==
  IF id \in DOMAIN position THEN position' = position
  ELSE \E where \in {f \in [Handles -> Positions] :
                       \A h1, h2 \in Handles : f[h1] = f[h2] => h1 = h2} :
         position' = Append(position, where)

ReadMaxId(p) ==
  /\ publisher[p].at = "guarded"
  /\ Len(epochs) < MaxEpochs
  /\ deriveEpochSigningKey(Len(epochs) + 1)
  /\ publisher' = [publisher EXCEPT
       ![p] = [at |-> "numbered", saw |-> @.saw, id |-> Len(epochs) + 1]]
  /\ UNCHANGED <<accounts, epochs, proof, now>>

LeafFor(handle, id) ==
  [handle |-> handle, pos |-> position[id][handle], hash |-> <<"leaf", handle, id>>]
AkdLeaf(leaf) == [pos |-> leaf.pos, hash |-> leaf.hash]

listAccountHandles(p) ==
  /\ publisher[p].at = "numbered"
  /\ publisher' = [publisher EXCEPT
       ![p] = [at |-> "listed", saw |-> @.saw, id |-> @.id, signedAt |-> now,
               leaves |-> {LeafFor(h, publisher[p].id) : h \in accounts}]]
  /\ UNCHANGED <<accounts, epochs, position, proof, now>>

NewEpoch(call) ==
  [epochId |-> call.id, root |-> buildMerkleRoot({AkdLeaf(l) : l \in call.leaves}),
   signedAt |-> call.signedAt, leaves |-> call.leaves, saw |-> call.saw]

mintEpoch(p) ==
  /\ publisher[p].at = "listed"
  /\ publisher[p].id = Len(epochs) + 1
  /\ epochs' = Append(epochs, NewEpoch(publisher[p]))
  /\ publisher' = [publisher EXCEPT ![p] = AtRest]
  /\ UNCHANGED <<accounts, position, proof, now>>

(* Another call has the id: the batch inserts nothing. *)
MintFailed(p) ==
  /\ publisher[p].at = "listed"
  /\ publisher[p].id <= Len(epochs)
  /\ publisher' = [publisher EXCEPT ![p] = AtRest]
  /\ UNCHANGED <<accounts, epochs, position, proof, now>>

(* The proof route, for the caller's own handle and an epoch or the latest.*)
ProofOf(handle, id) ==
  /\ proof.at = "rest"
  /\ handle \in accounts
  /\ epochs # <<>>
  /\ proof' = [at |-> "epoch", handle |-> handle,
               row |-> IF id = 0 THEN currentEpoch
                       ELSE IF id \in DOMAIN epochs THEN epochs[id] ELSE NoRow]
  /\ UNCHANGED <<accounts, epochs, position, publisher, now>>

Leaves(row) == IF row = NoRow THEN {} ELSE epochs[row.epochId].leaves

proofFor ==
  /\ proof.at = "epoch"
  /\ LET all == Leaves(proof.row)
         own == {leaf \in all : leaf.handle = proof.handle}
     IN proof' = IF own = {} THEN [proof EXCEPT !.at = "none"]
                 ELSE [at |-> "answered", handle |-> proof.handle, row |-> proof.row,
                       answer |-> buildInclusionProof({AkdLeaf(l) : l \in all},
                                                      AkdLeaf(CHOOSE l \in own : TRUE))]
  /\ UNCHANGED <<accounts, epochs, position, publisher, now>>

ProofRead ==
  /\ proof.at \in {"none", "answered"}
  /\ proof' = AtRest
  /\ UNCHANGED <<accounts, epochs, position, publisher, now>>

DirectoryNext ==
  \/ \E h \in Handles : CreateAccount(h)
  \/ Tick
  \/ \E p \in Publishers : \/ Publish(p) \/ ReadMaxId(p) \/ listAccountHandles(p)
                           \/ mintEpoch(p) \/ MintFailed(p)
  \/ \E h \in Handles, id \in 0..MaxEpochs : ProofOf(h, id)
  \/ proofFor
  \/ ProofRead

-----------------------------------------------------------------------------
(* An answered proof verifies against the root of its epoch, and neither   *)
(* another account's leaf nor another epoch's root verifies with it; there *)
(* is no proof only for an account the epoch was published without.        *)
EpochsProve ==
  /\ proof.at = "answered" =>
       /\ proof.answer.leafHash = <<"leaf", proof.handle, proof.row.epochId>>
       /\ \A id \in DOMAIN epochs :
            verifyInclusionProof(epochs[id].root, proof.answer)
              <=> id = proof.row.epochId
       /\ \A h \in Handles, pos \in Positions :
            LET other == [proof.answer EXCEPT
                            !.pos = pos, !.leafHash = <<"leaf", h, proof.row.epochId>>]
            IN verifyInclusionProof(proof.row.root, other) => other = proof.answer
  /\ proof.at = "none" =>
       \A leaf \in Leaves(proof.row) : leaf.handle # proof.handle

=============================================================================
