------------------------------ MODULE TextCodes ------------------------------
(***************************************************************************)
(* The texts a person reads, types, prints or pastes: the base-32 codes of *)
(* secret-key.ts, blob-inventory.ts and totp.ts, the Emergency Kit of      *)
(* StepSecret.svelte, the random choices of passgen.ts and passphrase.ts,  *)
(* and the card and address fields of utils/card.ts and utils/address.ts.  *)
(*                                                                         *)
(* A character of a base-32 text is the digit it stands for and how it is  *)
(* written: as the digit itself, in lower case, as a look-alike (I, L, O), *)
(* as white space or a hyphen, or as anything else ("bad").                *)
(***************************************************************************)
EXTENDS Integers, Sequences, SequencesExt, FiniteSetsExt

CONSTANTS Byte,      \* values of a byte, 256 in the code
          Word       \* values of a 32-bit draw, 2^32 in the code

SECRET_KEY_BYTES == 32
SECRET_KEY_BASE32_LEN == 52
INVENTORY_ADDRESS_BYTES == 16
Unreadable == <<"unreadable">>

Char(d, as) == [d |-> d, as |-> as]

(* The i-th bit, from 0, of a sequence of numbers of so many bits each. *)
Bit(seq, width, i) == (seq[1 + i \div width] \div 2^(width - 1 - (i % width))) % 2

(* The same bits cut into numbers of another width; missing bits are 0. *)
Regroup(seq, from, to, length) ==
  LET bit(i) == IF i < from * Len(seq) THEN Bit(seq, from, i) ELSE 0 IN
  [n \in 1..length |->
     MapThenSumSet(LAMBDA i : bit(to * (n - 1) + i) * 2^((to - 1) - i), 0..(to - 1))]

encodeBase32(bytes) ==
  LET digits == Regroup(bytes, 8, 5, (8 * Len(bytes) + 4) \div 5)
  IN [i \in DOMAIN digits |-> Char(digits[i], "digit")]

Digits(chars) == [i \in DOMAIN chars |-> chars[i].d]
DecodeDigits(digits) == Regroup(digits, 5, 8, (5 * Len(digits)) \div 8)
Stripped(chars) == SelectSeq(chars, LAMBDA c : c.as # "space")

decodeBase32(chars) ==
  LET cleaned == Stripped(chars) IN
  IF cleaned = <<>> \/ \E i \in DOMAIN cleaned : cleaned[i].as = "bad"
  THEN Unreadable
  ELSE DecodeDigits(Digits(cleaned))

decodeSecretKey(chars) ==
  LET bytes == decodeBase32(chars) IN
  IF Len(bytes) = SECRET_KEY_BYTES THEN bytes ELSE Unreadable

encodeAddress(addr) ==
  [i \in DOMAIN encodeBase32(addr) |-> [encodeBase32(addr)[i] EXCEPT !.as = "lower"]]

(* An address is read in either case and with no look-alikes. *)
decodeAddress(chars) ==
  IF Len(chars) # 26 \/ \E i \in DOMAIN chars : chars[i].as \notin {"digit", "lower"}
  THEN Unreadable
  ELSE DecodeDigits(Digits(chars))

(* The seeds of one-time codes: an alphabet in which I, L and O are        *)
(* letters like the others and 0 and 1 are none, so "bad".  The "=" of a   *)
(* padded seed is dropped with the white space.                            *)
decodeBase32Totp(chars) ==
  LET cleaned == Stripped(chars) IN
  IF \E i \in DOMAIN cleaned : cleaned[i].as = "bad" THEN Unreadable
  ELSE DecodeDigits(Digits(cleaned))

-----------------------------------------------------------------------------
(* The kit: lines of text, and what unlock and restore take from a paste.  *)

Plain(n) == [i \in 1..n |-> Char(0, "bad")]

(* Title, "Device:", "Issued:" and "Build:" lines, the caption of the key, *)
(* the key in groups of four, the sentence on recovery, and the release's  *)
(* hash in groups of eight hexadecimal digits.                             *)
groupChars(chars) ==
  FlattenSeq([i \in DOMAIN chars |->
                IF i % 4 = 0 THEN <<chars[i], Char(0, "space")>> ELSE <<chars[i]>>])

Line(chars, alnum) == [chars |-> chars, alnum |-> alnum]

downloadKit(encodedKey) ==
  << Line(Plain(19), TRUE), Line(Plain(60), FALSE), Line(Plain(30), FALSE),
     Line(Plain(36), FALSE), Line(groupChars(encodedKey), TRUE),
     Line(Plain(62), TRUE),
     Line([i \in 1..96 |-> Char(i % 16, "lower")], TRUE) >>

(* The key file carries the key as one value. *)
downloadVuKey(encodedKey) == [format |-> "vukey/v2", value |-> encodedKey]
parseVuKeyFile(file) ==
  IF file.format \in {"vukey/v1", "vukey/v2"} THEN file.value ELSE <<>>

(* The first line long enough to be a key, of letters and digits only once *)
(* spaces and hyphens are gone.                                            *)
parseVuKeyFileDetailed(lines) ==
  LET fits == {i \in DOMAIN lines :
                 /\ lines[i].alnum
                 /\ Len(Stripped(lines[i].chars)) >= SECRET_KEY_BASE32_LEN}
  IN IF fits = {} THEN <<>> ELSE Stripped(lines[Min(fits)].chars)

-----------------------------------------------------------------------------
(* totp.ts.  The code is what the counter gives: the hash is opaque. *)

parseTotpSeed(uri) ==
  [secret |-> uri.secret,
   period |-> IF uri.period = 0 THEN 30 ELSE uri.period,
   digits |-> IF uri.digits = 0 THEN 6 ELSE uri.digits]

generateTOTP(seed, now) ==
  [code |-> <<seed.secret, now \div seed.period, seed.digits>>,
   secondsRemaining |-> seed.period - (now % seed.period)]

-----------------------------------------------------------------------------
(* Choices at random.  A draw at or past the cap is drawn again, so what   *)
(* is left of the draws is what a choice is made from.                     *)

AcceptedMutant(n) == 0..(Byte - 1)
Accepted(n) == {byte \in 0..(Byte - 1) : byte < (Byte \div n) * n}
pickOne(n) == [byte \in Accepted(n) |-> byte % n]

randomIndex(n) ==
  [draw \in {x \in 0..(Word - 1) : x < ((Word - 1) \div n) * n} |-> draw % n]

(* Fisher and Yates from the last position down, for the places the draws  *)
(* choose.                                                                 *)
Swap(seq, i, j) == [seq EXCEPT ![i] = seq[j], ![j] = seq[i]]
shuffleInPlace(seq, places) ==
  LET step[i \in 1..Len(seq)] ==
        IF i = Len(seq) THEN Swap(seq, i, places[i] + 1)
        ELSE Swap(step[i + 1], i, places[i] + 1)
  IN IF Len(seq) <= 1 THEN seq ELSE step[2]

Places(n) == {p \in [2..n -> 0..(n - 1)] : \A i \in 2..n : p[i] \in Range(pickOne(i))}

Classes == {"lower", "upper", "digit", "symbol"}
AmbiguousIn == [lower |-> 1, upper |-> 2, digit |-> 2, symbol |-> 0]
ClassSize == [lower |-> 26, upper |-> 26, digit |-> 10, symbol |-> 25]
applyAmbiguous(class, exclude) ==
  ClassSize[class] - (IF exclude THEN AmbiguousIn[class] ELSE 0)

(* One character of every class, the rest from all of them, shuffled.  A   *)
(* password is told by the classes of its characters.                      *)
generate(enabled, length) ==
  IF enabled = {} \/ Cardinality(enabled) > length THEN {}
  ELSE {shuffleInPlace(SetToSeq(enabled) \o rest, places) :
          rest \in [1..(length - Cardinality(enabled)) -> enabled],
          places \in Places(length)}

(* The sizes of the alphabets a password's characters are drawn from. *)
Alphabets(enabled, exclude) ==
  {applyAmbiguous(class, exclude) : class \in enabled}
    \cup {MapThenSumSet(LAMBDA class : applyAmbiguous(class, exclude), enabled)}

(* The words of a passphrase, three to nine of them, and perhaps a number  *)
(* from 10 to 99: the sizes of the lists they are drawn from.              *)
WORDLIST == 248
generatePassphrase(words, number) ==
  [i \in 1..Max({3, Min({9, words})}) |-> WORDLIST] \o (IF number THEN <<90>> ELSE <<>>)

-----------------------------------------------------------------------------
(* card.ts.  A card number is a sequence of digits. *)

StartsWith(digits, n, low, high) ==
  /\ Len(digits) >= n
  /\ LET lead == FoldLeft(LAMBDA sum, d : 10 * sum + d, 0, SubSeq(digits, 1, n))
     IN lead \in low..high

Visa(d) == StartsWith(d, 1, 4, 4)
Mastercard(d) == StartsWith(d, 2, 51, 55) \/ StartsWith(d, 4, 2221, 2720)
Amex(d) == StartsWith(d, 2, 34, 34) \/ StartsWith(d, 2, 37, 37)
Discover(d) == \/ StartsWith(d, 4, 6011, 6011)
               \/ StartsWith(d, 2, 65, 65) \/ StartsWith(d, 3, 644, 649)
Diners(d) == \/ StartsWith(d, 3, 300, 305)
             \/ StartsWith(d, 2, 36, 36) \/ StartsWith(d, 2, 38, 38)
Jcb(d) == StartsWith(d, 4, 3528, 3589)
UnionPay(d) == StartsWith(d, 2, 62, 62)

Network(network, lengths, gaps, cvc) ==
  [network |-> network, lengths |-> lengths, gaps |-> gaps, cvcLength |-> cvc]

FourByFour == <<4, 4, 4, 4, 3>>
specFor(d) ==
  CASE Visa(d) -> Network("visa", {13, 16, 19}, FourByFour, 3)
    [] Mastercard(d) -> Network("mastercard", {16}, <<4, 4, 4, 4>>, 3)
    [] Amex(d) -> Network("amex", {15}, <<4, 6, 5>>, 4)
    [] Discover(d) -> Network("discover", {16, 19}, FourByFour, 3)
    [] Diners(d) -> Network("diners", {14, 16, 19}, <<4, 6, 4, 5>>, 3)
    [] Jcb(d) -> Network("jcb", 16..19, FourByFour, 3)
    [] UnionPay(d) -> Network("unionpay", 16..19, FourByFour, 3)
    [] OTHER -> Network("unknown", 12..19, FourByFour, 4)

maxLengthFor(d) == Max(specFor(d).lengths)
cvcLengthFor(d) == specFor(d).cvcLength
Taken(d, n) == SubSeq(d, 1, Min({n, Len(d)}))

(* The groups shown; a group past the last gap would be lost. *)
formatCardNumber(d) ==
  LET kept == Taken(d, maxLengthFor(d))
      gaps == specFor(d).gaps
      Start(i) == FoldLeft(+, 0, SubSeq(gaps, 1, i - 1))
      shown == {i \in DOMAIN gaps : Start(i) < Len(kept)}
  IN [i \in shown |-> SubSeq(kept, Start(i) + 1,
                             Min({Start(i) + gaps[i], Len(kept)}))]

Doubled(digit) == IF 2 * digit > 9 THEN 2 * digit - 9 ELSE 2 * digit
luhnValid(d) ==
  /\ Len(d) >= 12
  /\ MapThenSumSet(LAMBDA i : IF (Len(d) - i) % 2 = 1 THEN Doubled(d[i]) ELSE d[i],
                   DOMAIN d) % 10 = 0

cardNumberComplete(d) ==
  /\ Len(d) \in specFor(d).lengths
  /\ specFor(d).network = "unionpay" \/ luhnValid(d)

numberState(d) ==
  CASE d = <<>> -> "idle"
    [] cardNumberComplete(d) -> "ok"
    [] Len(d) >= maxLengthFor(d) /\ ~luhnValid(d) -> "bad"
    [] OTHER -> "typing"

(* MM/YY as the digits of the field; the slash is shown after the month. *)
formatExpiry(d) ==
  LET led == IF d # <<>> /\ d[1] >= 2 THEN <<0>> \o d ELSE d
      fixed == IF Len(led) < 2 THEN led
               ELSE IF led[1] = 0 /\ led[2] = 0 THEN <<0>> \o SubSeq(led, 3, Len(led))
               ELSE IF 10 * led[1] + led[2] > 12 THEN <<0>> \o led
               ELSE led
  IN Taken(fixed, 4)

expiryComplete(d) == Len(d) = 4 /\ 10 * d[1] + d[2] \in 1..12

(* onExpiryInput runs at every key. *)
onExpiryInput(keys) == FoldLeft(LAMBDA field, key : formatExpiry(Append(field, key)), <<>>, keys)
onNumberInput(keys) ==
  FoldLeft(LAMBDA field, key : FlattenSeq(formatCardNumber(Append(field, key))), <<>>, keys)

-----------------------------------------------------------------------------
(* address.ts.  A line is what stands between its commas; a tail is a      *)
(* state, by code or by name, and a ZIP, each of which may be missing ("").*)

ZIP3_RANGES == {
  <<"AL", 350, 369>>, <<"AK", 995, 999>>, <<"AZ", 850, 865>>, <<"AR", 716, 729>>,
  <<"CA", 900, 961>>, <<"CO", 800, 816>>, <<"CT", 60, 69>>, <<"DE", 197, 199>>,
  <<"DC", 200, 205>>, <<"FL", 320, 349>>, <<"GA", 300, 319>>, <<"GA", 398, 399>>,
  <<"HI", 967, 968>>, <<"ID", 832, 838>>, <<"IL", 600, 629>>, <<"IN", 460, 479>>,
  <<"IA", 500, 528>>, <<"KS", 660, 679>>, <<"KY", 400, 427>>, <<"LA", 700, 714>>,
  <<"ME", 39, 49>>, <<"MD", 206, 219>>, <<"MA", 10, 27>>, <<"MA", 55, 55>>,
  <<"MI", 480, 499>>, <<"MN", 550, 567>>, <<"MS", 386, 397>>, <<"MO", 630, 658>>,
  <<"MT", 590, 599>>, <<"NE", 680, 693>>, <<"NV", 889, 898>>, <<"NH", 30, 38>>,
  <<"NJ", 70, 89>>, <<"NM", 870, 884>>, <<"NY", 5, 5>>, <<"NY", 100, 149>>,
  <<"NC", 270, 289>>, <<"ND", 580, 588>>, <<"OH", 430, 459>>, <<"OK", 730, 749>>,
  <<"OR", 970, 979>>, <<"PA", 150, 196>>, <<"RI", 28, 29>>, <<"SC", 290, 299>>,
  <<"SD", 570, 577>>, <<"TN", 370, 385>>, <<"TX", 733, 733>>, <<"TX", 750, 799>>,
  <<"TX", 885, 885>>, <<"UT", 840, 847>>, <<"VT", 50, 59>>, <<"VA", 201, 201>>,
  <<"VA", 220, 246>>, <<"WA", 980, 994>>, <<"WV", 247, 268>>, <<"WI", 530, 549>>,
  <<"WY", 820, 831>>}

US_STATES == {range[1] : range \in ZIP3_RANGES}

zipMatchesState(zip, state) ==
  \E range \in ZIP3_RANGES :
    range[1] = state /\ zip \div 100 \in range[2]..range[3]

NoZip == -1
normalizeState(name) ==
  IF name.state \in US_STATES THEN name.state ELSE ""

parseAddressLine(line) ==
  LET Part(i) == IF i <= Len(line) THEN line[i] ELSE ""
      tail == IF Len(line) >= 3 THEN line[3] ELSE [state |-> "", zip |-> NoZip]
  IN [street |-> Part(1), city |-> Part(2),
      state |-> normalizeState(tail),
      \* A ZIP with no state before it is no tail at all.
      zip |-> IF tail.state = "" THEN NoZip ELSE tail.zip]

validateAddressLine(line) ==
  LET p == parseAddressLine(line) IN
  /\ p.street # "" /\ p.city # "" /\ p.state # "" /\ p.zip # NoZip
  /\ zipMatchesState(p.zip, p.state)

joinAddressLine(p) ==
  LET tail == IF p.state = "" /\ p.zip = NoZip THEN <<>>
              ELSE <<[state |-> p.state, zip |-> p.zip]>>
      Shown(part) == IF part = "" THEN <<>> ELSE <<part>>
  IN Shown(p.street) \o Shown(p.city) \o tail

(* Offered once the street is followed by a comma and until the city is. *)
suggestAddressLine(line, cities) ==
  IF Len(line) # 2 \/ line[1] = "" THEN {}
  ELSE {<<line[1], c.city, [state |-> c.state, zip |-> NoZip]>> : c \in cities}

=============================================================================
