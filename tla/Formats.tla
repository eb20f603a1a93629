------------------------------- MODULE Formats -------------------------------
(***************************************************************************)
(* What one part of the program writes and another reads, each job one     *)
(* trip: a record sealed, kept by a disk or a server that may return parts *)
(* of two, and opened in another context; a vault encoded and decoded; a   *)
(* key printed and pasted; a field typed; a token blinded, evaluated and   *)
(* finalized.  The key directory, which shares no state with the trips,    *)
(* moves beside them.                                                      *)
(***************************************************************************)
EXTENDS SealedRecords, TextCodes, Voprf, KeyDirectory, TLC

CONSTANTS Versions,       \* of the vault format
          Lengths,        \* of plaintexts, around the edges of the buckets
          CredentialLengths, StringLengths,
          Keys,           \* secret keys
          CardPrefixes, Fillers, Years,
          Streets, Towns, Zips,
          Cities          \* the cities offered for what is typed

VARIABLE job

Idle == [is |-> "idle"]

-----------------------------------------------------------------------------
(* Sealed records.  A context is what a device, a session or an account    *)
(* contributes to a key or to the associated data.                         *)

Context(version) ==
  [dataKey |-> 1, vaultKey |-> 1, salt |-> 1, cred |-> 1, mode |-> 1, index |-> 1,
   secret |-> 1, password |-> 1, day |-> 1, slot |-> 1, version |-> version]
Fields == DOMAIN Context(1)
Near(me) ==
  {me} \cup {[me EXCEPT ![field] = 2] : field \in Fields \ {"version"}}
       \cup {[me EXCEPT !.version = v] : v \in Versions}

Items(me) == Bytes(<<"items", me.dataKey>>, 1000)
Record(me) == serializeRestoreRecord(me, 16, <<32, 32, 36, 20>>)

Kinds == {"data key", "vault", "inventory", "restore record", "restore root",
          "recovery envelope", "old recovery envelope"}

SealAs(kind, me, fresh) ==
  CASE kind = "data key" -> wrapAesKey(me, fresh)
    [] kind = "vault" -> SealVault(me, fresh, Items(me))
    [] kind = "inventory" -> sealInventory(me, fresh, <<me.index>>)
    [] kind = "restore record" ->
         sealRestoreRecord(Root(me), RestoreAddress(me), fresh, Record(me))
    [] kind = "restore root" -> wrapRestoreRoot(me, fresh)
    [] kind = "recovery envelope" -> sealRecoveryEnvelope(me, fresh, FALSE)
    [] kind = "old recovery envelope" -> sealRecoveryEnvelope(me, fresh, TRUE)

OpenAs(kind, me, row) ==
  CASE kind = "data key" -> unwrapAesKey(me, row)
    [] kind = "vault" -> OpenVault(me, row)
    [] kind = "inventory" -> openInventory(me, row)
    [] kind = "restore record" -> openRestoreRecord(Root(me), RestoreAddress(me), row)
    [] kind = "restore root" -> unwrapRestoreRoot(me, row)
    [] OTHER -> openRecoveryEnvelope(me, row)

(* What was sealed, and what of the context must be there again to open it.*)
Contents(kind, me) ==
  CASE kind = "data key" -> Bytes(<<"data key", me.dataKey>>, 32)
    [] kind = "vault" -> Items(me)
    [] kind = "inventory" -> serializeInventory(<<me.index>>)
    [] kind = "restore record" -> Record(me)
    [] kind = "restore root" -> Bytes(Root(me), 32)
    [] OTHER -> serializePayload(me.dataKey)

Binds(kind) ==
  CASE kind = "data key" -> {"vaultKey", "salt"}
    [] kind = "vault" -> {"vaultKey", "salt", "cred", "mode", "version"}
    [] kind = "inventory" -> {"dataKey", "salt", "index"}
    [] kind = "restore record" -> {"secret", "password", "day", "slot"}
    [] kind = "restore root" -> {"dataKey"}
    [] OTHER -> {"secret", "password", "salt", "cred", "mode"}

(* The first version of the vault was sealed under the vault key itself.   *)
HasHeader(kind, me) == kind = "vault" => me.version > 1

SealTwo(kind, one, two) ==
  job' = [is |-> "sealed", kind |-> kind, writers |-> <<one, two>>]

(* The header, the nonce and the box may come from different records. *)
Mixed(rows, parts) ==
  Sealed(rows[parts[1]].header, rows[parts[2]].nonce, rows[parts[3]].box)
Rows(kind, writers) ==
  <<SealAs(kind, writers[1], 1), SealAs(kind, writers[2], 2)>>

OpenMixed(parts, reader) ==
  /\ job.is = "sealed"
  /\ job' = [is |-> "opened", kind |-> job.kind, writers |-> job.writers,
             parts |-> parts, reader |-> reader,
             got |-> OpenAs(job.kind, reader, Mixed(Rows(job.kind, job.writers), parts))]

-----------------------------------------------------------------------------
(* Sizes *)

PadJob(length, floor) ==
  LET padded == padPlaintext(Bytes(<<"plain">>, length), floor)
  IN job' = [is |-> "padded", length |-> length, floor |-> floor,
             padded |-> padded, back |-> unpadPlaintext(padded)]

RecordJob(credLength, stringLength) ==
  LET me == Context(3)
      record == serializeRestoreRecord(me, credLength, [i \in 1..4 |-> stringLength])
      row == sealRestoreRecord(Root(me), RestoreAddress(me), 1, record)
  IN job' = [is |-> "record", credLength |-> credLength, record |-> record,
             wire |-> WireBytes(row.box)]

-----------------------------------------------------------------------------
(* Texts *)

(* What vault-item.ts lets an item of a kind hold, and what a vault of an  *)
(* earlier build may hold besides.                                         *)
FullItem(kind) ==
  [f \in Common \cup VaultItem[kind] |-> IF f = "kind" THEN kind ELSE f]
OldItem == FullItem("document") @@ [docBlobId |-> "docBlobId", docFileName |-> "docFileName"]

CodecJob(items) ==
  job' = [is |-> "decoded", items |-> items,
          got |-> deserializeItems(serializeItems(items))]

(* As it was printed, or typed again in lower case or with look-alikes. *)
Retyped(chars, as) ==
  [i \in DOMAIN chars |->
     IF as = "lookalike" /\ chars[i].d > 1 THEN chars[i]
     ELSE [chars[i] EXCEPT !.as = as]]

(* All of the kit, or the part of it that was pasted. *)
KitJob(key, as, first, last) ==
  LET kit == SubSeq(downloadKit(Retyped(encodeBase32(key), as)), first, last)
  IN job' = [is |-> "key", key |-> key, whole |-> 5 \in first..last,
             got |-> decodeSecretKey(parseVuKeyFileDetailed(kit))]

VuKeyJob(key, groups) ==
  LET chars == IF groups THEN groupChars(encodeBase32(key))
               ELSE parseVuKeyFile(downloadVuKey(encodeBase32(key)))
  IN job' = [is |-> "key", key |-> key, whole |-> TRUE, got |-> decodeSecretKey(chars)]

AddressJob(key, as) ==
  LET address == SubSeq(key, 1, INVENTORY_ADDRESS_BYTES)
      sent == Retyped(encodeAddress(address), as)
  IN job' = [is |-> "address", address |-> address,
             odd |-> \E i \in DOMAIN sent : sent[i].as \notin {"digit", "lower"},
             got |-> decodeAddress(sent)]

TotpJob(uri, time) ==
  LET seed == parseTotpSeed(uri)
  IN job' = [is |-> "totp", seed |-> seed, time |-> time,
             got |-> generateTOTP(seed, time)]

TotpSeedJob(bytes) ==
  job' = [is |-> "totp seed", bytes |-> bytes,
          got |-> decodeBase32Totp(groupChars(encodeBase32(bytes)))]

CardJob(prefix, filler, wrong) ==
  LET length == maxLengthFor(prefix)
      digits == prefix \o [i \in 1..(length - Len(prefix)) |-> filler]
      Swapped(check) == [digits EXCEPT ![length] = check]
      good == CHOOSE check \in 0..9 : luhnValid(Swapped(check))
  IN job' = [is |-> "card", digits |-> Swapped(good),
             typed |-> onNumberInput(Swapped(good)),
             shown |-> formatCardNumber(Swapped(good)),
             slip |-> [Swapped(good) EXCEPT ![wrong] = (@ + 1) % 10]]

ExpiryJob(month, year, short) ==
  /\ short => month \in 2..9
  /\ LET keys == (IF short THEN <<month>> ELSE <<month \div 10, month % 10>>)
                   \o <<year \div 10, year % 10>>
     IN job' = [is |-> "expiry", month |-> month, year |-> year,
                got |-> onExpiryInput(keys)]

BillingJob(line) ==
  job' = [is |-> "billing", line |-> line, valid |-> validateAddressLine(line),
          got |-> parseAddressLine(line)]

-----------------------------------------------------------------------------
(* Random choices *)

PickJob(n) ==
  job' = [is |-> "picks", n |-> n]

ShuffleJob(n) ==
  job' = [is |-> "shuffles", n |-> n]

GenerateJob(enabled, length) ==
  job' = [is |-> "passwords", enabled |-> enabled, length |-> length,
          got |-> generate(enabled, length)]

-----------------------------------------------------------------------------
(* Tokens: a server that evaluates under one key and publishes another is  *)
(* caught.                                                                 *)

TokenJob(input, r, keys, t, scalar) ==
  LET pk == publicKey(keys[1])
      sent == blindEvaluate(keys[2], pk, blind(input, r), t, scalar)
  IN /\ sent.proof.s # 0
     /\ job' = [is |-> "token", input |-> input, keys |-> keys,
                got |-> finalize(input, r, sent.evaluated, sent.proof, pk)]

-----------------------------------------------------------------------------
SetOut ==
  \/ \E kind \in Kinds, v \in Versions :
       /\ v = 3 \/ kind \in {"vault", "old recovery envelope"}
       /\ \E two \in Near(Context(v)) : SealTwo(kind, Context(v), two)
  \/ \E length \in Lengths, floor \in {256, 2048, 65536} : PadJob(length, floor)
  \/ \E c \in CredentialLengths, s \in StringLengths : RecordJob(c, s)
  \/ \E k1, k2 \in DOMAIN VaultItem : CodecJob(<<FullItem(k1), FullItem(k2)>>)
  \/ \E k \in DOMAIN VaultItem, f \in Common \ {"kind"} :
       CodecJob(<<Restrict(FullItem(k), DOMAIN FullItem(k) \ {f}), OldItem>>)
  \/ \E key \in Keys, as \in {"digit", "lower", "lookalike"}, first, last \in 1..7 :
       first <= last /\ KitJob(key, as, first, last)
  \/ \E key \in Keys, groups \in BOOLEAN : VuKeyJob(key, groups)
  \/ \E key \in Keys, as \in {"digit", "lower", "lookalike", "bad"} : AddressJob(key, as)
  \/ \E period \in {0, 30, 60}, digits \in {0, 8}, time \in 0..125 :
       TotpJob([secret |-> 1, period |-> period, digits |-> digits], time)
  \/ \E key \in Keys, n \in {10, 20, 32} : TotpSeedJob(SubSeq(key, 1, n))
  \/ \E prefix \in CardPrefixes, filler \in Fillers, wrong \in 1..14 :
       CardJob(prefix, filler, wrong)
  \/ \E month \in 1..12, year \in Years, short \in BOOLEAN : ExpiryJob(month, year, short)
  \/ \E street \in Streets, town \in Towns, state \in US_STATES \cup {"", "Nowhere"},
        zip \in Zips \cup {NoZip}, more \in {<<>>, <<"USA">>} :
       BillingJob(<<street, town, [state |-> state, zip |-> zip]>> \o more)
  \/ \E enabled \in SUBSET Classes \ {{}}, exclude \in BOOLEAN :
       \E n \in Alphabets(enabled, exclude) : PickJob(n)
  \/ \E words \in {0, 12}, number \in BOOLEAN :
       \E n \in Range(generatePassphrase(words, number)) : PickJob(n)
  \/ \E n \in 2..4 : ShuffleJob(n)
  \/ \E enabled \in SUBSET Classes, length \in 4..5 : GenerateJob(enabled, length)
  \/ \E input \in Inputs, r, sk1, sk2, t, scalar \in Scalars :
       TokenJob(input, r, <<sk1, sk2>>, t, scalar)

Trip ==
  \/ job = Idle /\ SetOut
  \/ job.is = "sealed" /\ \E parts \in {1, 2} \X {1, 2} \X {1, 2} :
       \E reader \in Near(job.writers[1]) : OpenMixed(parts, reader)

Return ==
  /\ job.is \notin {"idle", "sealed"}
  /\ job' = Idle

Init == job = Idle /\ DirectoryInit

(* A trip and the directory share nothing: the trips are made while the    *)
(* directory is still empty, and it moves while none is under way.         *)
Next ==
  \/ DirectoryInit /\ (Trip \/ Return) /\ UNCHANGED directoryVars
  \/ job = Idle /\ DirectoryNext /\ UNCHANGED job

Spec == Init /\ [][Next]_<<job, directoryVars>>

-----------------------------------------------------------------------------
(* A record opens exactly when its parts are those of one record and all   *)
(* its kind binds agrees, and then to what was sealed in it: no part can   *)
(* be replaced by another record's, and no context opens another's record. *)
OpensAsSealed ==
  job.is = "opened" =>
    LET rows == Rows(job.kind, job.writers)
        row == Mixed(rows, job.parts)
        whose == {i \in 1..2 :
                    /\ row.nonce = rows[i].nonce /\ row.box = rows[i].box
                    /\ HasHeader(job.kind, job.writers[i]) => row.header = rows[i].header
                    /\ \A field \in Binds(job.kind) :
                         job.reader[field] = job.writers[i][field]}
    IN IF whose = {} THEN job.got = Refused
       ELSE \A i \in whose : job.got = Contents(job.kind, job.writers[i])

(* A padded length is the smallest bucket that takes the plaintext and its *)
(* prefix, and unpads to it; every restore record whose credential leaves  *)
(* room in the 2 KiB bucket has one size, and any other one more.          *)
SizesHide ==
  /\ job.is = "padded" /\ job.padded # Refused =>
       /\ job.back = Bytes(<<"plain">>, job.length)
       /\ job.padded.len >= job.length + LENGTH_PREFIX_BYTES
       /\ job.padded.len = job.floor
            \/ job.padded.len \div 2 < job.length + LENGTH_PREFIX_BYTES
       /\ job.padded.len \in enumerateBuckets(job.padded.len - LENGTH_PREFIX_BYTES)
  /\ job.is = "record" /\ job.record # Refused =>
       /\ job.wire \in {TagBytes + 2048, TagBytes + 4096}
       /\ job.credLength <= 871 => job.wire = TagBytes + 2048

(* Every declared field of every kind survives the vault's codec, and an   *)
(* item without a required one refuses the vault.                          *)
ItemsSurvive ==
  job.is = "decoded" =>
    IF \E i \in DOMAIN job.items : ~ Required \subseteq DOMAIN job.items[i]
    THEN job.got = Malformed
    ELSE \A i \in DOMAIN job.items :
           LET item == job.items[i]
               declared == Common \cup VaultItem[item.kind]
           IN job.got.items[i] = Restrict(item, DOMAIN item \cap declared)

(* A printed key, whole or with other lines about it, retyped or grouped,  *)
(* comes back as itself; a paste without it is refused and never read as   *)
(* another key.  An address is read in either case and no other way.       *)
KeysSurvive ==
  /\ job.is = "key" => job.got = IF job.whole THEN job.key ELSE Unreadable
  /\ job.is = "address" =>
       job.got = IF job.odd THEN Unreadable ELSE job.address
  /\ job.is = "totp seed" => job.got = job.bytes

(* A one-time code stands for exactly the seconds it says are left. *)
CodeStands ==
  job.is = "totp" =>
    LET At(time) == generateTOTP(job.seed, time).code IN
    /\ \A s \in 0..(job.got.secondsRemaining - 1) : At(job.time + s) = job.got.code
    /\ At(job.time + job.got.secondsRemaining) # job.got.code

(* What is typed into the card and the billing fields is what they hold.   *)
FieldsHold ==
  /\ job.is = "card" =>
       /\ FlattenSeq(job.shown) = job.digits
       /\ job.typed = job.digits
       /\ numberState(job.digits) = "ok"
       /\ specFor(job.slip) = specFor(job.digits) /\ specFor(job.slip).network # "unionpay"
            => numberState(job.slip) = "bad"
  /\ job.is = "expiry" =>
       /\ expiryComplete(job.got)
       /\ job.got = <<job.month \div 10, job.month % 10, job.year \div 10, job.year % 10>>
  /\ job.is = "billing" =>
       /\ job.valid => parseAddressLine(joinAddressLine(job.got)) = job.got
       /\ \A offer \in suggestAddressLine(SubSeq(job.line, 1, 2), Cities) :
            LET p == parseAddressLine(offer) IN
            /\ p.street = job.line[1] /\ [city |-> p.city, state |-> p.state] \in Cities
            /\ validateAddressLine([offer EXCEPT ![3].zip = job.line[3].zip])
                 <=> job.line[3].zip # NoZip /\ zipMatchesState(job.line[3].zip, p.state)

(* A token finalized under the published key is what the server will       *)
(* compute when it is redeemed, whatever the blind; an evaluation under    *)
(* any other key is refused.                                               *)
TokensRedeem ==
  job.is = "token" =>
    job.got = IF job.keys[1] = job.keys[2] THEN evaluate(job.keys[1], job.input)
              ELSE NoOutput

Fair(choice, outcomes) ==
  /\ Cardinality(Range(choice)) = outcomes
  /\ \A c \in Range(choice) :
       Cardinality({d \in DOMAIN choice : choice[d] = c}) * outcomes
         = Cardinality(DOMAIN choice)

(* Every choice at random is as likely as any other, and every enabled     *)
(* class of characters is in every password.                               *)
ChoicesAreFair ==
  /\ job.is = "picks" => Fair(pickOne(job.n), job.n) /\ Fair(randomIndex(job.n), job.n)
  /\ job.is = "shuffles" =>
       Fair([p \in Places(job.n) |-> shuffleInPlace([i \in 1..job.n |-> i], p)],
            <<1, 2, 6, 24>>[job.n])
  /\ job.is = "passwords" =>
       \A password \in job.got :
         Len(password) = job.length /\ Range(password) = job.enabled

(* What one part writes, another part reads back as it was, and nothing    *)
(* else opens or passes for it.                                            *)
WhatIsWrittenIsRead ==
  OpensAsSealed /\ ItemsSurvive /\ KeysSurvive /\ CodeStands /\ FieldsHold /\ TokensRedeem

(* Neither the size of what is stored nor a choice made at random tells    *)
(* more than its bucket and its alphabet.                                  *)
NothingShows == SizesHide /\ ChoicesAreFair

=============================================================================
