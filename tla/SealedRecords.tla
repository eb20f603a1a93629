---------------------------- MODULE SealedRecords ----------------------------
(***************************************************************************)
(* The sealed formats of lib/crypto and of vault-session.ts as operators:  *)
(* padding.ts, envelope.ts, vault-envelope.ts, blob-inventory.ts,          *)
(* restore-record.ts, recovery-envelope.ts and the blob of the vault.      *)
(*                                                                         *)
(* A byte string is what it stands for and its length.  A derived key is   *)
(* the label and the inputs of its derivation, so two keys are equal when  *)
(* those are; a box of AES-GCM opens under the key, nonce and associated   *)
(* data it was made with and under no other.                               *)
(***************************************************************************)
EXTENDS Naturals, Sequences, FiniteSetsExt

CONSTANT MAX_BUCKET_BYTES   \* 2 GiB in the code

MIN_BUCKET_BYTES == 256
LENGTH_PREFIX_BYTES == 4
VAULT_PAD_FLOOR_BYTES == 65536
RESTORE_RECORD_BUCKET_BYTES == 2048
MAX_CREDENTIAL_ID_BYTES == 1023
MAX_STRING_BYTES == 256
TagBytes == 16

Bytes(is, len) == [is |-> is, len |-> len]
Refused == Bytes(<<"refused">>, 0)
Hkdf(info, ikm, salt) == <<info, ikm, salt>>

Gcm(key, nonce, aad, plain) ==
  [key |-> key, nonce |-> nonce, aad |-> aad, plain |-> plain]
Decrypt(key, nonce, aad, box) ==
  IF box.key = key /\ box.nonce = nonce /\ box.aad = aad THEN box.plain
  ELSE Refused
WireBytes(box) == box.plain.len + TagBytes

-----------------------------------------------------------------------------
(* padding.ts *)

Buckets == {size \in {MIN_BUCKET_BYTES * 2^k : k \in 0..22} :
              size <= MAX_BUCKET_BYTES}

bucketSizeWithFloorMutant(len, floor) ==
  LET fits == {size \in Buckets : size >= Max({len, floor})}
  IN IF floor \notin Buckets \/ fits = {} THEN 0 ELSE Min(fits)

(* 0 is the error the code throws. *)
bucketSizeWithFloor(len, floor) ==
  LET fits == {size \in Buckets : size >= Max({len + LENGTH_PREFIX_BYTES, floor})}
  IN IF floor \notin Buckets \/ fits = {} THEN 0 ELSE Min(fits)

bucketSize(len) == bucketSizeWithFloor(len, MIN_BUCKET_BYTES)

enumerateBuckets(maxSize) == {size \in Buckets : size <= bucketSize(maxSize)}

padPlaintext(plain, floor) ==
  LET size == bucketSizeWithFloor(plain.len, floor) IN
  IF size = 0 THEN Refused ELSE Bytes(<<"padded", plain>>, size)

(* Read as a length, the first four bytes of anything not padded, a 0x01   *)
(* and JSON or an upper-case magic, exceed every bucket.                   *)
unpadPlaintext(padded) ==
  IF /\ padded.len \in Buckets
     /\ padded.is[1] = "padded"
     /\ padded.is[2].len + LENGTH_PREFIX_BYTES <= padded.len
  THEN padded.is[2]
  ELSE Refused

-----------------------------------------------------------------------------
(* envelope.ts and vault-envelope.ts: a record on disk or on the wire has  *)
(* a header, which not every format uses, a nonce and a box.               *)

Sealed(header, nonce, box) == [header |-> header, nonce |-> nonce, box |-> box]

combinedKey(pair, header) == Hkdf("envelope-v1", pair, header)

seal(plain, pair, fresh) ==
  LET header == <<"kem", pair, fresh>> IN
  Sealed(header, fresh, Gcm(combinedKey(pair, header), fresh, header, plain))

open(env, pair) ==
  IF env.header = <<>> THEN Refused
  ELSE Decrypt(combinedKey(pair, env.header), env.nonce, env.header, env.box)

deriveHybridKeypair(vaultKey, salt) ==
  [x25519 |-> Hkdf("envelope-derive-v2-x25519", vaultKey, salt),
   mlkem |-> Hkdf("envelope-derive-v2-mlkem", vaultKey, salt)]

wrapAesKey(me, fresh) ==
  seal(Bytes(<<"data key", me.dataKey>>, 32),
       deriveHybridKeypair(me.vaultKey, me.salt), fresh)

unwrapAesKey(me, wrapped) ==
  LET key == open(wrapped, deriveHybridKeypair(me.vaultKey, me.salt)) IN
  IF key.len = 32 THEN key ELSE Refused

(* The layout is exact: the parts come back as they were, or the header    *)
(* of a v1 row, which is empty, is too short.                              *)
serializeWrappedKey(wrapped) == <<"wrapped", wrapped>>
deserializeWrappedKey(header) ==
  IF header = <<>> THEN Sealed(<<>>, 0, Gcm(<<>>, 0, <<>>, Refused))
  ELSE header[2]

-----------------------------------------------------------------------------
(* The whole-vault blob: vault-session.ts *)

makeAadMutant(me, header) ==
  [version |-> me.version, mode |-> me.mode, salt |-> me.salt,
   cred |-> me.cred, header |-> <<>>]

makeAad(me, header) ==
  [version |-> me.version, mode |-> me.mode, salt |-> me.salt,
   cred |-> me.cred, header |-> IF me.version >= 2 THEN header ELSE <<>>]

sealBlob(key, fresh, plain, aad, version) ==
  Gcm(key, fresh, aad,
      IF version >= 3 THEN padPlaintext(plain, VAULT_PAD_FLOOR_BYTES) ELSE plain)

openBlob(key, nonce, box, aad, version) ==
  LET plain == Decrypt(key, nonce, aad, box) IN
  IF version < 3 \/ plain = Refused THEN plain ELSE unpadPlaintext(plain)

SealVault(me, fresh, items) ==
  LET header == IF me.version < 2 THEN <<>>
                ELSE serializeWrappedKey(wrapAesKey(me, fresh))
      key == IF me.version < 2 THEN <<"vault key", me.vaultKey>>
             ELSE <<"data key", me.dataKey>>
  IN Sealed(header, fresh,
            sealBlob(key, fresh, items, makeAad(me, header), me.version))

OpenVault(me, row) ==
  LET key == IF me.version < 2 THEN <<"vault key", me.vaultKey>>
             ELSE unwrapAesKey(me, deserializeWrappedKey(row.header)).is
  IN openBlob(key, row.nonce, row.box, makeAad(me, row.header), me.version)

-----------------------------------------------------------------------------
(* blob-inventory.ts *)

deriveChainKey(dataKey, salt) == Hkdf("inventory-chain-v2", dataKey, salt)

inventoryAddress(chainKey, salt, index) ==
  Hkdf(<<"inventory-address", index>>, chainKey, salt)

deriveInventoryKey(chainKey, address) == Hkdf("inventory-aes", chainKey, address)

serializeInventory(blobIds) ==
  Bytes(<<"inventory", blobIds>>, 40 + 36 * Len(blobIds))

(* Bytes past the last id are let through. *)
deserializeInventory(buf) ==
  IF buf.is[1] = "inventory" /\ buf.len >= 40 /\ buf.len >= 40 + 36 * Len(buf.is[2])
  THEN buf ELSE Refused

ChainKey(me) == deriveChainKey(me.dataKey, me.salt)
InventoryAddress(me) == inventoryAddress(ChainKey(me), me.salt, me.index)

sealInventory(me, fresh, blobIds) ==
  Sealed(<<>>, fresh,
         Gcm(deriveInventoryKey(ChainKey(me), InventoryAddress(me)), fresh, <<>>,
             serializeInventory(blobIds)))

openInventory(me, row) ==
  deserializeInventory(
    Decrypt(deriveInventoryKey(ChainKey(me), InventoryAddress(me)),
            row.nonce, <<>>, row.box))

-----------------------------------------------------------------------------
(* recovery-envelope.ts: one stretch of the Recovery Password gives the    *)
(* key of the envelope and the root of the restore records.                *)

recoveryArgonSalt(secret) == Hkdf("recovery-argon-salt-v1", secret, <<>>)

deriveRecoveryMaterial(secret, password, salt) ==
  LET ikm == <<secret, <<"argon2id", password, salt>> >> IN
  [envelopeKey |-> Hkdf("recovery-envelope-key-v1", ikm, salt),
   restoreRoot |-> Hkdf("restore-root-v1", ikm, salt)]

contextDigests(me) == [salt |-> me.salt, cred |-> me.cred]

recoveryAad(me) ==
  <<"recovery", me.mode, contextDigests(me)>>
makeLegacyAad(me, version) ==
  <<"recovery", version, me.mode, contextDigests(me)>>

serializePayload(dataKey) == Bytes(<<"recovery payload", dataKey>>, 1 + 36 + 32)
deserializePayload(payload) ==
  IF payload.len = 1 + 36 + 32 /\ payload.is[1] = "recovery payload"
  THEN payload ELSE Refused

(* An earlier build drew the salt at random and bound the vault's format   *)
(* version; the salt travels beside the box, where a header would.         *)
sealRecoveryEnvelope(me, fresh, old) ==
  LET salt == IF old THEN <<"random", fresh>> ELSE recoveryArgonSalt(me.secret)
      aad == IF old THEN makeLegacyAad(me, me.version) ELSE recoveryAad(me)
      key == deriveRecoveryMaterial(me.secret, me.password, salt).envelopeKey
  IN Sealed(salt, fresh, Gcm(key, fresh, aad, serializePayload(me.dataKey)))

openRecoveryEnvelope(me, env) ==
  LET key == deriveRecoveryMaterial(me.secret, me.password, env.header).envelopeKey
      Try(aad) == Decrypt(key, env.nonce, aad, env.box)
      opened == {Try(aad) : aad \in {recoveryAad(me)}
                              \cup {makeLegacyAad(me, v) : v \in 1..3}} \ {Refused}
  IN IF opened = {} THEN Refused
     ELSE deserializePayload(CHOOSE payload \in opened : TRUE)

-----------------------------------------------------------------------------
(* restore-record.ts *)

Root(me) ==
  deriveRecoveryMaterial(me.secret, me.password,
                         recoveryArgonSalt(me.secret)).restoreRoot

restoreAddress(root, day, slot) == Hkdf(<<"restore-address", day, slot>>, root, <<>>)
RestoreAddress(me) == restoreAddress(Root(me), me.day, me.slot)
recordKey(root, address) == Hkdf("restore-record-key-v1", root, address)
recordAad(address) == <<"restore-record-aad-v1", address>>

(* The fields whose length is not fixed: a credential id and four strings. *)
serializeRestoreRecord(is, credLen, strings) ==
  IF credLen \notin 1..MAX_CREDENTIAL_ID_BYTES
     \/ \E i \in DOMAIN strings : strings[i] > MAX_STRING_BYTES
  THEN Refused
  ELSE Bytes(<<"restore record", is>>,
             141 + credLen
               + MapThenSumSet(LAMBDA i : 2 + strings[i], DOMAIN strings))

deserializeRestoreRecord(buf) ==
  IF buf.is[1] = "restore record" THEN buf ELSE Refused

sealRestoreRecord(root, address, fresh, record) ==
  Sealed(<<>>, fresh,
         Gcm(recordKey(root, address), fresh, recordAad(address),
             padPlaintext(record, RESTORE_RECORD_BUCKET_BYTES)))

openRestoreRecord(root, address, row) ==
  deserializeRestoreRecord(
    unpadPlaintext(
      Decrypt(recordKey(root, address), row.nonce, recordAad(address), row.box)))

rootWrapKey(me) == Hkdf("restore-root-wrap-v1", me.dataKey, <<>>)
wrapRestoreRoot(me, fresh) ==
  Sealed(<<>>, fresh,
         Gcm(rootWrapKey(me), fresh, "restore-root-wrap", Bytes(Root(me), 32)))
unwrapRestoreRoot(me, row) ==
  LET root == Decrypt(rootWrapKey(me), row.nonce, "restore-root-wrap", row.box)
  IN IF root.len = 32 THEN root ELSE Refused

-----------------------------------------------------------------------------
(* vault-codec.ts.  An item is a function from the names of the fields it  *)
(* has to what they hold; a field that is absent is undefined.             *)

Common == {"id", "kind", "title", "subtitle", "createdAt", "updatedAt",
           "favorite", "tags"}
Required == {"id", "kind", "title", "createdAt", "updatedAt"}

(* What vault-item.ts declares for each kind. *)
VaultItem ==
  [login |-> {"url", "username", "password", "totpSeed"},
   card |-> {"cardholder", "cardNumber", "cardExpiry", "cardCvc", "billingAddress",
             "billingCity", "billingState", "billingZip", "billingCountry"},
   note |-> {"noteBody"},
   identity |-> {"identityName", "identityEmail", "identityPhone", "identityAddress"},
   ssh |-> {"sshKeyBody", "sshPassphrase"},
   seed |-> {"seedPhrase"},
   document |-> {"docDescription", "docExternalRef"}]

KeptFieldsMutant ==
  [VaultItem EXCEPT !.card = @ \ {"billingCountry"}]

(* What the codec builds, kind by kind. *)
KeptFields ==
  [login |-> {"url", "username", "password", "totpSeed"},
   card |-> {"cardholder", "cardNumber", "cardExpiry", "cardCvc",
             "billingAddress", "billingCity", "billingState", "billingZip",
             "billingCountry"},
   note |-> {"noteBody"},
   identity |-> {"identityName", "identityEmail", "identityPhone",
                 "identityAddress"},
   ssh |-> {"sshKeyBody", "sshPassphrase"},
   seed |-> {"seedPhrase"},
   document |-> {"docDescription", "docExternalRef"}]

ValidKind(item) == "kind" \in DOMAIN item /\ item.kind \in DOMAIN KeptFields

validateItem(item) ==
  [field \in DOMAIN item \cap (Common \cup KeptFields[item.kind]) |-> item[field]]

serializeItems(items) == [version |-> 1, items |-> items]

Malformed == [version |-> 0, items |-> <<>>]

(* One item that is not an item refuses the vault. *)
deserializeItems(payload) ==
  IF /\ payload.version = 1
     /\ \A i \in DOMAIN payload.items :
          ValidKind(payload.items[i]) /\ Required \subseteq DOMAIN payload.items[i]
  THEN [payload EXCEPT !.items = [i \in DOMAIN @ |-> validateItem(@[i])]]
  ELSE Malformed

=============================================================================
