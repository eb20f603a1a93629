------------------------------ MODULE ItemRules ------------------------------
(***************************************************************************)
(* What the vault page knows of each kind of item: the fields of its form  *)
(* and of its detail pane, the checks of item-validation.ts, the billing   *)
(* line of utils/address.ts, the strength and reuse report of              *)
(* password-health.ts.                                                     *)
(*                                                                         *)
(* The fields of an item are one value, its body: blank, good but a weak   *)
(* password, good, or bad, which is one field its kind's checks refuse.    *)
(* A billing line is named by what its parse finds.                        *)
(***************************************************************************)
EXTENDS Naturals, Sequences, SequencesExt

Kinds == {"login", "card", "note", "identity", "ssh", "crypto-seed",
          "document"}
Title == {"", "named"}
Body == {"blank", "weak", "strong", "bad"}

(* A line with every part; one whose city is left out, "1 Main St,, CA     *)
(* 94103"; one whose state and ZIP stand where the city should.            *)
Line == {"none", "full", "no city", "state as city"}

-----------------------------------------------------------------------------
(* The fields of the editor's form *)

LoginFields == {"url", "username", "password", "totpSeed"}
CardholderFields == {"cardholder", "cardNumber", "cardExpiry", "cardCvc"}
CardFields == CardholderFields \cup {"billingLine"}
NoteFields == {"noteBody"}
IdentityFields == {"identityName", "identityEmail", "identityPhone",
                   "identityAddress"}
SshFields == {"sshKeyBody", "sshPassphrase"}
SeedFields == {"seedPhrase"}
DocumentFields == {"docDescription", "docExternalRef"}

FieldsOf(kind) ==
  CASE kind = "login" -> LoginFields       [] kind = "card" -> CardFields
    [] kind = "note" -> NoteFields         [] kind = "identity" -> IdentityFields
    [] kind = "ssh" -> SshFields           [] kind = "crypto-seed" -> SeedFields
    [] kind = "document" -> DocumentFields [] OTHER -> {}

(* The detail pane: the keys under which a value is shown in clear, and    *)
(* the values it copies.  A passphrase hides under the key of a password.  *)
ItemRow(reveal, copy) == [reveal |-> reveal, copy |-> copy]
LoginRows == ItemRow({"password"}, {"username", "password", "url", "totp"})
CardRows == ItemRow({"cardNumber", "cardCvc"}, {"billing address", "card"})
NoteRows == ItemRow({"noteBody"}, {"note"})
IdentityRows == ItemRow({}, {"name", "email", "phone"})
SshRows == ItemRow({"sshKeyBody", "password"}, {"ssh-key", "passphrase"})
SeedRows == ItemRow({"seedPhrase"}, {"seed"})
DocumentRows == ItemRow({}, {"description", "docExternalRef"})

RowsOf(kind) ==
  CASE kind = "login" -> LoginRows       [] kind = "card" -> CardRows
    [] kind = "note" -> NoteRows         [] kind = "identity" -> IdentityRows
    [] kind = "ssh" -> SshRows           [] kind = "crypto-seed" -> SeedRows
    [] kind = "document" -> DocumentRows [] OTHER -> ItemRow({}, {})

primarySecretField(kind) ==
  CASE kind = "card" -> "cardNumber" [] kind = "note" -> "noteBody"
    [] kind = "ssh" -> "sshKeyBody"  [] kind = "crypto-seed" -> "seedPhrase"
    [] OTHER -> "password"

RevealKeys == (UNION {RowsOf(k).reveal : k \in Kinds}) \cup {"password"}

-----------------------------------------------------------------------------
(* item-validation.ts *)

checkTitle(form) == form.title # ""
validateLogin(form) == checkTitle(form) /\ form.body \notin {"blank", "bad"}
validateCard(form) == checkTitle(form) /\ form.body # "bad"
validateNote(form) == checkTitle(form) /\ form.body # "bad"
validateIdentity(form) == checkTitle(form) /\ form.body # "bad"
validateSsh(form) == checkTitle(form) /\ form.body \notin {"blank", "bad"}
validateSeed(form) == checkTitle(form) /\ form.body \notin {"blank", "bad"}
validateDocument(form) == checkTitle(form) /\ form.body # "bad"

Valid(form) ==
  CASE form.kind = "login" -> validateLogin(form)
    [] form.kind = "card" -> validateCard(form)
    [] form.kind = "note" -> validateNote(form)
    [] form.kind = "identity" -> validateIdentity(form)
    [] form.kind = "ssh" -> validateSsh(form)
    [] form.kind = "crypto-seed" -> validateSeed(form)
    [] form.kind = "document" -> validateDocument(form)
    [] OTHER -> FALSE

-----------------------------------------------------------------------------
(* utils/address.ts: the line the stored parts are joined into, named as   *)
(* parseAddressLine will read it.  An absent city leaves no trace.         *)
joinAddressLine(stored) == IF stored = "no city" THEN "state as city" ELSE stored

(* us-institutions.ts: how many names match a title. *)
searchInstitutions(title) == IF title = "" THEN 2 ELSE 1

-----------------------------------------------------------------------------
(* password-health.ts *)

Passwords(items) ==
  {i \in DOMAIN items : items[i].kind = "login" /\ items[i].body # "blank"}

estimatePasswordStrength(body) == [weak |-> body = "weak"]

computeVaultHealth(items) ==
  LET in == Passwords(items) IN
  [weak |-> {items[i].id :
             i \in {j \in in : estimatePasswordStrength(items[j].body).weak}},
   reused |-> {items[i].id :
               i \in {j \in in : \E k \in in \ {j} :
                                   items[k].body = items[j].body}}]

NoHealth == [weak |-> {}, reused |-> {}]
=============================================================================
