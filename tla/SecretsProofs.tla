--------------------------- MODULE SecretsProofs ---------------------------
(***************************************************************************)
(* Proofs about Secrets, for any number of files, keys, texts and loaders  *)
(* and any number of commands: every interleaving of the steps of a        *)
(* command with those of the loaders.                                      *)
(***************************************************************************)
EXTENDS Secrets, FiniteSetsExt, FiniteSetTheorems, SequenceTheorems, TLAPS

----------------------------------------------------------------------------
(* Sets of numbers.                                                       *)

\* Min is the least member: the first free slot, page or bit.
LEMMA LeastMember ==
    ASSUME NEW S, S \subseteq Nat, S # {}
    PROVE  Min(S) \in S /\ \A y \in S : Min(S) <= y
<1> DEFINE R == OpToRel(<, Nat)
<1>1. IsWellFoundedOn(R, Nat)
  BY NatLessThanWellFounded
<1>2. \A x, y \in Nat : <<y, x>> \in R <=> y < x
  BY DEF OpToRel
<1> HIDE DEF R
<1>3. PICK x \in S : \A y \in S : ~(<<y, x>> \in R)
  BY <1>1, WFMin
<1>4. ASSUME NEW y \in S PROVE x <= y
  <2>1. x \in Nat /\ y \in Nat /\ ~(y < x)
    BY <1>2, <1>3
  <2> QED
    BY <2>1
<1> QED
  BY <1>3, <1>4 DEF Min

\* Max is the greatest member of a bounded set.
LEMMA GreatestMember ==
    ASSUME NEW n \in Nat, NEW s, s \subseteq 1..n, s # {}
    PROVE  Max(s) \in s /\ \A y \in s : Max(s) >= y
<1> DEFINE U == {m \in Nat : \A y \in s : m >= y}
<1>1. U \subseteq Nat /\ n \in U
  OBVIOUS
<1>2. Min(U) \in U /\ \A m \in U : Min(U) <= m
  BY <1>1, LeastMember
<1>3. PICK u \in Nat : (\A y \in s : u >= y) /\ \A m \in U : u <= m
  BY <1>2
<1>4. u \in s
  <2>1. SUFFICES ASSUME u \notin s PROVE FALSE
    OBVIOUS
  <2>2. \A y \in s : y \in Nat /\ y >= 1 /\ u - 1 >= y
    BY <1>3, <2>1
  <2>3. u - 1 \in Nat
    <3>1. PICK y \in s : TRUE
      OBVIOUS
    <3>2. y \in Nat /\ y >= 1 /\ u - 1 >= y
      BY <2>2
    <3> QED
      BY <1>3, <3>2
  <2>4. u <= u - 1
    BY <1>3, <2>2, <2>3
  <2> QED
    BY <1>3, <2>4
<1> HIDE DEF U
<1> QED
  BY <1>3, <1>4 DEF Max

\* Induction from a on, for the numbers in P.
LEMMA SetInduction ==
    ASSUME NEW P, NEW a \in Nat, a \in P,
           \A n \in Nat : n >= a /\ n \in P => n + 1 \in P
    PROVE  \A n \in Nat : n >= a => n \in P
<1> DEFINE B == {n \in Nat : n >= a /\ n \notin P}
<1> SUFFICES ASSUME B # {} PROVE FALSE
  OBVIOUS
<1>1. B \subseteq Nat
  OBVIOUS
<1>2. Min(B) \in B /\ \A y \in B : Min(B) <= y
  BY <1>1, LeastMember
<1> DEFINE m == Min(B)
<1>3. m \in Nat /\ m >= a /\ m \notin P /\ m # a
  BY <1>2
<1> HIDE DEF m
<1>4. m - 1 \in Nat /\ m - 1 >= a /\ m = (m - 1) + 1
  BY <1>3
<1>5. m - 1 \notin B
  <2>1. ~(m <= m - 1)
    BY <1>3
  <2> QED
    BY <1>2, <2>1 DEF m
<1>6. m - 1 \in P
  BY <1>4, <1>5
<1> QED
  BY <1>3, <1>4, <1>6

----------------------------------------------------------------------------

\* What the bytes of files are made of
Word == DOMAIN Text \cup Key \cup {"hash", "junk", "long"}

\* Every hash in c was put there by a loader that had hashed what precedes it.
Sealed(c, S) == \A i \in 1..Len(c) : c[i] = "hash" => SubSeq(c, 1, i) \in S
Bytes(c, S) == c \in Seq(Word) /\ Sealed(c, S)

Types ==
    /\ content \in [File -> Seq(Word)] /\ plain \in [File -> Seq(Word)]
    /\ attr \in [File -> SUBSET Attr]
    /\ deny \subseteq File /\ spoiled \subseteq File
    /\ cmds \in 0..MAX_CMDS
    /\ \A s \in seals : Last(s) = "hash"

KeysOK ==
    /\ keys \in Seq(File \X Key)
    /\ \A i, j \in 1..Len(keys) : keys[i][1] = keys[j][1] => i = j

\* A file: what its user put into it can be recovered.
RecoverAt(f) ==
    Exists(f) /\ f \notin spoiled =>
        /\ "encrypted" \notin attr[f] => content[f] = plain[f]
        /\ "encrypted" \in attr[f] =>
              \E k \in Key : /\ content[f] = Append(plain[f], k)
                             /\ \/ HasKey(f, k)
                                \/ cmd.op = "keys" /\ cmd.file = f /\ cmd.key = k
FileOK(f) ==
    /\ Sealed(content[f], seals)
    /\ content[f] = Absent => attr[f] = {} /\ f \notin deny
    /\ RecoverAt(f)

\* A command that is under way: the file it works on exists, and the key of one
\* it can decrypt is the one in /keys.
CmdOK ==
    /\ cmd.op \in {"idle", "enc", "keys", "dec", "edit", "cp"}
    /\ cmd.op # "idle" => /\ cmd.file \in File /\ Exists(cmd.file)
                          /\ Bytes(cmd.seen, seals) /\ cmd.seen # Absent
    /\ cmd.op \in {"enc", "keys", "dec", "edit"} => cmd.key \in Key /\ cmd.flags \subseteq Attr
    /\ cmd.op = "enc" =>
          /\ "encrypted" \notin cmd.flags
          /\ cmd = [op |-> "enc", file |-> cmd.file, key |-> cmd.key, seen |-> cmd.seen,
                    flags |-> cmd.flags]
    /\ cmd.op \in {"dec", "edit"} /\ "encrypted" \in cmd.flags => HasKey(cmd.file, cmd.key)
    /\ cmd.op = "dec" => "encrypted" \in cmd.flags
    /\ cmd.op = "keys" /\ cmd.file \notin spoiled =>
          /\ content[cmd.file] = Append(plain[cmd.file], cmd.key)
          /\ "encrypted" \in attr[cmd.file]

\* A loader that has read r: what it will append the hash to exists, what it
\* has verified was sealed, what it has refused does not end in a hash.
LoaderOK(r, ct, S) ==
    /\ r.pc \in {"idle", "verify", "sha", "hash", "append", "write", "flag", "refused", "load"}
    /\ r.pc # "idle" => r.file \in File
    /\ r.pc = "append" => r = [pc |-> "append", file |-> r.file, hash |-> r.hash]
    /\ r.pc \in {"write", "flag"} => ct[r.file] # Absent
    /\ r.pc = "flag" => r.flags \subseteq Attr
    /\ r.pc = "sha" => Bytes(r.first, S) /\ r.first # Absent
    /\ r.pc = "load" /\ r.verdict = "right" => {r.seen, Append(r.seen, "hash")} \cap S # {}
    /\ r.pc = "load" /\ r.verdict = "fault" => Size(r.seen) <= HASH_SIZE
    /\ r.pc = "refused" /\ r.seen = r.first /\ "hashed" \in r.flags => Last(r.seen) # "hash"

LoadersOK == DOMAIN loader = Loader /\ \A l \in Loader : LoaderOK(loader[l], content, seals)

\* The inductive invariant.
IInv ==
    /\ Types
    /\ KeysOK
    /\ \A f \in File : FileOK(f)
    /\ CmdOK
    /\ LoadersOK

----------------------------------------------------------------------------
(* Sequences of words, and the hashes in them.                             *)

\* Appending a word: what the result is made of, and that it can be undone.
LEMMA AppendFacts ==
    ASSUME NEW c \in Seq(Word), NEW x \in Word
    PROVE  /\ Append(c, x) \in Seq(Word) /\ Append(c, x) # Absent
           /\ Len(Append(c, x)) = Len(c) + 1 /\ Len(c) \in Nat
           /\ \A i \in 1..Len(c) : Append(c, x)[i] = c[i]
           /\ Append(c, x)[Len(c) + 1] = x
<1>1. Append(c, x) \in Seq(Word) /\ Len(Append(c, x)) = Len(c) + 1 /\ Len(c) \in Nat
  OBVIOUS
<1>2. Append(c, x) # Absent
  <2>1. Len(Absent) = 0
    BY DEF Absent
  <2> QED
    BY <1>1, <2>1
<1> QED
  BY <1>1, <1>2

\* The first words of a longer sequence.
LEMMA PrefixFacts ==
    ASSUME NEW c \in Seq(Word), NEW i \in 0..Len(c)
    PROVE  /\ SubSeq(c, 1, i) \in Seq(Word) /\ Len(SubSeq(c, 1, i)) = i
           /\ \A j \in 1..i : SubSeq(c, 1, i)[j] = c[j]
<1>1. Len(c) \in Nat /\ i \in Nat
  OBVIOUS
<1>2. \A j \in 1..i : c[j] \in Word
  BY <1>1, ElementOfSeq
<1> QED
  BY <1>1, <1>2, SubSeqProperties

\* Sequences that agree so far have the same prefix.
LEMMA SamePrefix ==
    ASSUME NEW c \in Seq(Word), NEW d \in Seq(Word), NEW i \in 0..Len(c), i <= Len(d),
           \A j \in 1..i : c[j] = d[j]
    PROVE  SubSeq(c, 1, i) = SubSeq(d, 1, i)
<1>1. Len(c) \in Nat /\ Len(d) \in Nat /\ i \in 0..Len(d)
  OBVIOUS
<1>2. /\ SubSeq(c, 1, i) \in Seq(Word) /\ Len(SubSeq(c, 1, i)) = i
      /\ \A j \in 1..i : SubSeq(c, 1, i)[j] = c[j]
  BY PrefixFacts
<1>3. /\ SubSeq(d, 1, i) \in Seq(Word) /\ Len(SubSeq(d, 1, i)) = i
      /\ \A j \in 1..i : SubSeq(d, 1, i)[j] = d[j]
  BY <1>1, PrefixFacts
<1>4. \A j \in 1..i : SubSeq(c, 1, i)[j] = SubSeq(d, 1, i)[j]
  BY <1>2, <1>3
<1> QED
  BY <1>2, <1>3, <1>4, SeqEqual

\* The last word, and what precedes it.
LEMMA FrontFacts ==
    ASSUME NEW c \in Seq(Word), c # Absent
    PROVE  /\ Len(c) \in Nat /\ Len(c) > 0 /\ Last(c) \in Word /\ Last(c) = c[Len(c)]
           /\ Front(c) \in Seq(Word) /\ Len(Front(c)) = Len(c) - 1
           /\ Front(c) = SubSeq(c, 1, Len(c) - 1)
           /\ \A i \in 1..Len(c) - 1 : Front(c)[i] = c[i]
           /\ c = Append(Front(c), Last(c))
<1>1. Len(c) \in Nat /\ Len(c) > 0 /\ Len(c) - 1 \in 0..Len(c) /\ Len(c) \in 1..Len(c)
  BY EmptySeq DEF Absent
<1>2. Last(c) \in Word /\ Last(c) = c[Len(c)]
  BY <1>1, ElementOfSeq DEF Last
<1>3. /\ Front(c) \in Seq(Word) /\ Len(Front(c)) = Len(c) - 1
      /\ \A i \in 1..Len(c) - 1 : Front(c)[i] = c[i]
  BY <1>1, PrefixFacts DEF Front
<1>4. c = Append(Front(c), Last(c))
  <2> DEFINE d == Append(Front(c), Last(c))
  <2>1. /\ d \in Seq(Word) /\ Len(d) = Len(Front(c)) + 1
        /\ \A i \in 1..Len(Front(c)) : d[i] = Front(c)[i]
        /\ d[Len(Front(c)) + 1] = Last(c)
    BY <1>2, <1>3, AppendFacts
  <2> HIDE DEF d
  <2>2. Len(d) = Len(c)
    BY <1>1, <1>3, <2>1
  <2>3. ASSUME NEW i \in 1..Len(c) PROVE c[i] = d[i]
    <3>1. i = Len(c) \/ i \in 1..Len(c) - 1
      BY <1>1
    <3>2. i = Len(c) => d[i] = Last(c)
      BY <1>1, <1>3, <2>1
    <3> QED
      BY <1>2, <1>3, <2>1, <3>1, <3>2
  <2>4. c = d
    BY <2>1, <2>2, <2>3, SeqEqual
  <2> QED
    BY <2>4 DEF d
<1> QED
  BY <1>1, <1>2, <1>3, <1>4 DEF Front

\* Append is injective.
LEMMA AppendCancels ==
    ASSUME NEW c \in Seq(Word), NEW d \in Seq(Word), NEW x \in Word, NEW y \in Word,
           Append(c, x) = Append(d, y)
    PROVE  c = d /\ x = y
<1>1. Len(c) \in Nat /\ Len(d) \in Nat /\ Len(c) = Len(d)
  BY AppendFacts
<1>2. \A i \in 1..Len(c) : c[i] = d[i]
  <2>1. \A i \in 1..Len(c) : Append(c, x)[i] = c[i]
    BY AppendFacts
  <2>2. \A i \in 1..Len(d) : Append(d, y)[i] = d[i]
    BY AppendFacts
  <2> QED
    BY <1>1, <2>1, <2>2
<1>3. c = d
  BY <1>1, <1>2, SeqEqual
<1>4. Append(c, x)[Len(c) + 1] = x
  BY AppendFacts
<1>5. Append(d, y)[Len(d) + 1] = y
  BY AppendFacts
<1> QED
  BY <1>1, <1>3, <1>4, <1>5

\* What was appended can be taken off again.
LEMMA AppendFront ==
    ASSUME NEW c \in Seq(Word), NEW x \in Word
    PROVE  Front(Append(c, x)) = c /\ Last(Append(c, x)) = x
<1> DEFINE d == Append(c, x)
<1>1. d \in Seq(Word) /\ d # Absent
  BY AppendFacts
<1> HIDE DEF d
<1>2. Front(d) \in Seq(Word) /\ Last(d) \in Word /\ d = Append(Front(d), Last(d))
  BY <1>1, FrontFacts
<1>3. Append(Front(d), Last(d)) = Append(c, x)
  BY <1>2 DEF d
<1> QED
  BY <1>2, <1>3, AppendCancels DEF d

\* The words "cut" and "last" mark a digest that no bytes have.
LEMMA Marks == "cut" \notin Word /\ "last" \notin Word /\ "hash" \in Word /\ "junk" \in Word
               /\ EMPTY \in Word /\ "long" \in Word /\ Key \subseteq Word /\ "hash" \notin Key
               /\ DOMAIN Text \subseteq Word /\ "hash" \notin DOMAIN Text
               /\ Absent \in Seq(Word) /\ <<EMPTY>> \in Seq(Word) /\ Junk \in Seq(Word)
               /\ EMPTY # "hash" /\ EMPTY # "junk"
<1>1. "cut" \notin Word /\ "last" \notin Word
  BY SecretsAssumption DEF Word
<1>2. /\ "hash" \in Word /\ "junk" \in Word /\ EMPTY \in Word /\ "long" \in Word
      /\ Key \subseteq Word /\ DOMAIN Text \subseteq Word
  BY SecretsAssumption DEF Word
<1>3. "hash" \notin Key /\ "hash" \notin DOMAIN Text
  BY SecretsAssumption
<1>4. Absent \in Seq(Word) /\ <<EMPTY>> \in Seq(Word) /\ Junk \in Seq(Word)
  BY <1>2 DEF Absent, Junk
<1> QED
  BY <1>1, <1>2, <1>3, <1>4 DEF EMPTY

\* One word that is no hash, and no word at all.
LEMMA BytesOne ==
    ASSUME NEW x \in Word, x # "hash", NEW S
    PROVE  Bytes(<<x>>, S) /\ <<x>> # Absent
<1>1. <<x>> \in Seq(Word) /\ Len(<<x>>) = 1 /\ <<x>>[1] = x
  OBVIOUS
<1>2. Sealed(<<x>>, S)
  BY <1>1 DEF Sealed
<1>3. Len(Absent) = 0
  BY DEF Absent
<1> QED
  BY <1>1, <1>2, <1>3 DEF Bytes

\* A file that does not exist has no hash to account for.
LEMMA BytesNone == ASSUME NEW S PROVE Bytes(Absent, S)
<1>1. Absent \in Seq(Word) /\ Len(Absent) = 0
  BY DEF Absent
<1> QED
  BY <1>1 DEF Bytes, Sealed

\* Hashes that are recorded stay recorded.
LEMMA BytesMono ==
    ASSUME NEW c, NEW S, NEW T, Bytes(c, S), S \subseteq T
    PROVE  Bytes(c, T)
BY DEF Bytes, Sealed

\* A word that is no hash may follow any bytes; a hash may when it is recorded.
LEMMA BytesAppend ==
    ASSUME NEW c, NEW x \in Word, NEW S, Bytes(c, S), x # "hash" \/ Append(c, x) \in S
    PROVE  Bytes(Append(c, x), S)
<1>1. c \in Seq(Word)
  BY DEF Bytes
<1> DEFINE d == Append(c, x)
<1>2. /\ d \in Seq(Word) /\ Len(d) = Len(c) + 1 /\ Len(c) \in Nat
      /\ \A i \in 1..Len(c) : d[i] = c[i]
      /\ d[Len(c) + 1] = x
  BY <1>1, AppendFacts
<1> HIDE DEF d
<1>3. ASSUME NEW i \in 1..Len(d), d[i] = "hash" PROVE SubSeq(d, 1, i) \in S
  <2>1. CASE i \in 1..Len(c)
    <3>1. c[i] = "hash" /\ SubSeq(c, 1, i) \in S
      BY <1>2, <1>3, <2>1 DEF Bytes, Sealed
    <3>2. i \in 0..Len(c) /\ i <= Len(d) /\ \A j \in 1..i : c[j] = d[j]
      BY <1>2, <2>1
    <3>3. SubSeq(c, 1, i) = SubSeq(d, 1, i)
      BY <1>1, <1>2, <3>2, SamePrefix
    <3> QED
      BY <3>1, <3>3
  <2>2. CASE i = Len(d)
    <3>1. d \in S
      BY <1>2, <1>3, <2>2 DEF d
    <3>2. SubSeq(d, 1, Len(d)) = d
      BY <1>2, SubSeqFull
    <3> QED
      BY <2>2, <3>1, <3>2
  <2> QED
    BY <1>2, <2>1, <2>2
<1>4. Bytes(d, S)
  BY <1>2, <1>3 DEF Bytes, Sealed
<1> QED
  BY <1>4 DEF d

\* What precedes the last word.
LEMMA BytesFront ==
    ASSUME NEW c, NEW S, Bytes(c, S), c # Absent
    PROVE  Bytes(Front(c), S)
<1>1. c \in Seq(Word)
  BY DEF Bytes
<1>2. /\ Len(c) \in Nat /\ Len(c) > 0 /\ Front(c) \in Seq(Word) /\ Len(Front(c)) = Len(c) - 1
      /\ \A i \in 1..Len(c) - 1 : Front(c)[i] = c[i]
  BY <1>1, FrontFacts
<1>3. ASSUME NEW i \in 1..Len(Front(c)), Front(c)[i] = "hash" PROVE SubSeq(Front(c), 1, i) \in S
  <2>1. i \in 1..Len(c) /\ c[i] = "hash"
    BY <1>2, <1>3
  <2>2. SubSeq(c, 1, i) \in S
    BY <2>1 DEF Bytes, Sealed
  <2>3. i \in 0..Len(c) /\ i <= Len(Front(c)) /\ \A j \in 1..i : c[j] = Front(c)[j]
    BY <1>2
  <2>4. SubSeq(c, 1, i) = SubSeq(Front(c), 1, i)
    BY <1>1, <1>2, <2>3, SamePrefix
  <2> QED
    BY <2>2, <2>4
<1> QED
  BY <1>2, <1>3 DEF Bytes, Sealed

\* Bytes that end in a hash are recorded.
LEMMA BytesLast ==
    ASSUME NEW c, NEW S, Bytes(c, S), c # Absent, Last(c) = "hash"
    PROVE  c \in S
<1>1. c \in Seq(Word)
  BY DEF Bytes
<1>2. Len(c) \in 1..Len(c) /\ c[Len(c)] = "hash"
  BY <1>1, FrontFacts
<1>3. SubSeq(c, 1, Len(c)) \in S
  BY <1>2 DEF Bytes, Sealed
<1>4. SubSeq(c, 1, Len(c)) = c
  BY <1>1, SubSeqFull
<1> QED
  BY <1>3, <1>4

\* What SM4_ECB_Decrypt gives is bytes again, and exists.
LEMMA DecryptBytes ==
    ASSUME NEW c, NEW k, NEW S, Bytes(c, S), c # Absent
    PROVE  Bytes(SM4_ECB_Decrypt(c, k), S) /\ SM4_ECB_Decrypt(c, k) # Absent
<1>1. Bytes(Junk, S) /\ Junk # Absent
  BY Marks, BytesOne DEF Junk
<1>2. Bytes(Front(c), S)
  BY BytesFront
<1>3. Len(c) > 1 => Front(c) # Absent
  <2>1. Len(Front(c)) = Len(c) - 1 /\ Len(c) \in Nat
    BY FrontFacts DEF Bytes
  <2>2. Len(Absent) = 0
    BY DEF Absent
  <2> QED
    BY <2>1, <2>2
<1> QED
  BY <1>1, <1>2, <1>3 DEF SM4_ECB_Decrypt

\* The text that was encrypted is the one that decrypting gives.
LEMMA DecryptEncrypt ==
    ASSUME NEW c \in Seq(Word), NEW k \in Key, NEW j \in Key,
           SM4_ECB_Decrypt(Append(c, k), j) # Junk
    PROVE  SM4_ECB_Decrypt(Append(c, k), j) = c
<1>1. k \in Word
  BY Marks
<1>2. Front(Append(c, k)) = c
  BY <1>1, AppendFront
<1> QED
  BY <1>2 DEF SM4_ECB_Decrypt

----------------------------------------------------------------------------
(* The records of /keys.                                                   *)

KeysAre(ks) ==
    /\ ks \in Seq(File \X Key)
    /\ \A i, j \in 1..Len(ks) : ks[i][1] = ks[j][1] => i = j
Places(ks, f) == {i \in 1..Len(ks) : ks[i][1] = f}
RecordOf(ks, f) == IF Places(ks, f) # {} THEN Min(Places(ks, f)) ELSE 0
Holds(ks, f, k) == \E i \in 1..Len(ks) : ks[i] = <<f, k>>

\* The record that a scan of /keys stops at is one of the path.
LEMMA RecordOfFacts ==
    ASSUME NEW ks, KeysAre(ks), NEW f, RecordOf(ks, f) # 0
    PROVE  RecordOf(ks, f) \in 1..Len(ks) /\ ks[RecordOf(ks, f)][1] = f
<1>1. Len(ks) \in Nat
  BY DEF KeysAre
<1>2. Places(ks, f) \subseteq Nat /\ Places(ks, f) # {}
  BY <1>1 DEF Places, RecordOf
<1>3. Min(Places(ks, f)) \in Places(ks, f)
  BY <1>2, LeastMember
<1> QED
  BY <1>2, <1>3 DEF Places, RecordOf

\* A record that is there is found, for no path has two.
LEMMA FoundIffHeld ==
    ASSUME NEW ks, KeysAre(ks), NEW f, NEW k
    PROVE  (RecordOf(ks, f) # 0 /\ ks[RecordOf(ks, f)][2] = k) <=> Holds(ks, f, k)
<1>1. ASSUME RecordOf(ks, f) # 0, ks[RecordOf(ks, f)][2] = k PROVE Holds(ks, f, k)
  <2>1. RecordOf(ks, f) \in 1..Len(ks) /\ ks[RecordOf(ks, f)][1] = f
    BY <1>1, RecordOfFacts
  <2>2. ks[RecordOf(ks, f)] \in File \X Key
    BY <2>1, ElementOfSeq DEF KeysAre
  <2>3. ks[RecordOf(ks, f)] = <<f, k>>
    BY <1>1, <2>1, <2>2
  <2> QED
    BY <2>1, <2>3 DEF Holds
<1>2. ASSUME Holds(ks, f, k) PROVE RecordOf(ks, f) # 0 /\ ks[RecordOf(ks, f)][2] = k
  <2>1. PICK i \in 1..Len(ks) : ks[i] = <<f, k>>
    BY <1>2 DEF Holds
  <2>2. ks[i][1] = f /\ ks[i][2] = k
    BY <2>1
  <2>3. Places(ks, f) # {} /\ Places(ks, f) \subseteq Nat /\ 0 \notin Places(ks, f)
    BY <2>2 DEF Places, KeysAre
  <2>4. RecordOf(ks, f) # 0
    BY <2>3, LeastMember DEF RecordOf
  <2>5. RecordOf(ks, f) \in 1..Len(ks) /\ ks[RecordOf(ks, f)][1] = f
    BY <2>4, RecordOfFacts
  <2>6. RecordOf(ks, f) = i
    BY <2>2, <2>5 DEF KeysAre
  <2> QED
    BY <2>2, <2>4, <2>6
<1> QED
  BY <1>1, <1>2

\* What dec and edit accept as the key is what the record says, now and after a step.
LEMMA HasKeyHolds ==
    ASSUME KeysOK, NEW f, NEW k
    PROVE  HasKey(f, k) <=> Holds(keys, f, k)
<1>1. KeysAre(keys)
  BY DEF KeysOK, KeysAre
<1>2. KeyRecord(f) = RecordOf(keys, f)
  BY DEF KeyRecord, SelectInSeq, RecordOf, Places
<1>3. (RecordOf(keys, f) # 0 /\ keys[RecordOf(keys, f)][2] = k) <=> Holds(keys, f, k)
  BY <1>1, FoundIffHeld
<1> QED
  BY <1>2, <1>3 DEF HasKey

LEMMA HasKeyHoldsNext ==
    ASSUME KeysOK', NEW f, NEW k
    PROVE  HasKey(f, k)' <=> Holds(keys', f, k)
<1>1. KeysAre(keys')
  BY DEF KeysOK, KeysAre
<1>2. KeyRecord(f)' = RecordOf(keys', f)
  BY DEF KeyRecord, SelectInSeq, RecordOf, Places
<1>3. (RecordOf(keys', f) # 0 /\ keys'[RecordOf(keys', f)][2] = k) <=> Holds(keys', f, k)
  BY <1>1, FoundIffHeld
<1> QED
  BY <1>2, <1>3 DEF HasKey

Recorded(ks, f, k) ==
    IF RecordOf(ks, f) # 0 THEN [ks EXCEPT ![RecordOf(ks, f)] = <<f, k>>]
    ELSE Append(ks, <<f, k>>)

\* Replacing the record of a path, or adding one, keeps the other records.
LEMMA RecordKept ==
    ASSUME NEW ks, KeysAre(ks), NEW f \in File, NEW k \in Key, NEW new,
           new = Recorded(ks, f, k)
    PROVE  /\ KeysAre(new) /\ Holds(new, f, k)
           /\ \A g, j : g # f /\ Holds(ks, g, j) => Holds(new, g, j)
<1>1. ks \in Seq(File \X Key) /\ Len(ks) \in Nat
  BY DEF KeysAre
<1>2. CASE RecordOf(ks, f) # 0
  <2>1. PICK i \in 1..Len(ks) : i = RecordOf(ks, f) /\ ks[i][1] = f
    BY <1>2, RecordOfFacts
  <2>2. new = [ks EXCEPT ![i] = <<f, k>>]
    BY <1>2, <2>1 DEF Recorded
  <2>3. /\ new \in Seq(File \X Key) /\ Len(new) = Len(ks) /\ new[i] = <<f, k>>
        /\ \A j \in 1..Len(ks) : j # i => new[j] = ks[j]
    <3>1. <<f, k>> \in File \X Key
      OBVIOUS
    <3>2. /\ [ks EXCEPT ![i] = <<f, k>>] \in Seq(File \X Key)
          /\ Len([ks EXCEPT ![i] = <<f, k>>]) = Len(ks)
      BY <1>1, <3>1, ExceptSeq
    <3>3. DOMAIN ks = 1..Len(ks)
      BY <1>1
    <3> QED
      BY <2>1, <2>2, <3>2, <3>3
  <2>4. \A j \in 1..Len(ks) : new[j][1] = ks[j][1]
    BY <2>1, <2>3
  <2>5. KeysAre(new)
    BY <2>3, <2>4 DEF KeysAre
  <2>6. ASSUME NEW g, NEW j, g # f, Holds(ks, g, j) PROVE Holds(new, g, j)
    <3>1. PICK m \in 1..Len(ks) : ks[m] = <<g, j>>
      BY <2>6 DEF Holds
    <3>2. m # i
      BY <2>1, <2>6, <3>1
    <3> QED
      BY <2>3, <3>1, <3>2 DEF Holds
  <2> QED
    BY <2>1, <2>3, <2>5, <2>6 DEF Holds
<1>3. CASE RecordOf(ks, f) = 0
  <2>1. new = Append(ks, <<f, k>>)
    BY <1>3 DEF Recorded
  <2>2. /\ new \in Seq(File \X Key) /\ Len(new) = Len(ks) + 1 /\ new[Len(ks) + 1] = <<f, k>>
        /\ \A j \in 1..Len(ks) : new[j] = ks[j]
    BY <1>1, <2>1
  <2>3. \A j \in 1..Len(ks) : ks[j][1] # f
    <3>1. SUFFICES ASSUME NEW j \in 1..Len(ks), ks[j][1] = f PROVE FALSE
      OBVIOUS
    <3>2. Places(ks, f) # {} /\ Places(ks, f) \subseteq Nat /\ 0 \notin Places(ks, f)
      BY <1>1, <3>1 DEF Places
    <3> QED
      BY <1>3, <3>2, LeastMember DEF RecordOf
  <2>4. ASSUME NEW a \in 1..Len(new), NEW b \in 1..Len(new), new[a][1] = new[b][1] PROVE a = b
    <3>1. (a = Len(ks) + 1 \/ a \in 1..Len(ks)) /\ (b = Len(ks) + 1 \/ b \in 1..Len(ks))
      BY <1>1, <2>2
    <3>2. a \in 1..Len(ks) /\ b \in 1..Len(ks) => a = b
      BY <2>2, <2>4 DEF KeysAre
    <3>3. new[Len(ks) + 1][1] = f
      BY <2>2
    <3> QED
      BY <2>2, <2>3, <2>4, <3>1, <3>2, <3>3
  <2>5. Holds(new, f, k)
    BY <1>1, <2>2 DEF Holds
  <2>6. ASSUME NEW g, NEW j, Holds(ks, g, j) PROVE Holds(new, g, j)
    <3>1. PICK m \in 1..Len(ks) : ks[m] = <<g, j>>
      BY <2>6 DEF Holds
    <3>2. m \in 1..Len(new) /\ new[m] = <<g, j>>
      BY <1>1, <2>2, <3>1
    <3> QED
      BY <3>2 DEF Holds
  <2> QED
    BY <2>2, <2>4, <2>5, <2>6 DEF KeysAre
<1> QED
  BY <1>2, <1>3

----------------------------------------------------------------------------
(* The size of bytes: the fold over their words, and that what was         *)
(* encrypted is not empty.                                                 *)

Grown(n, x) == CASE x \in DOMAIN Text -> Text[x]
                 [] x = "hash" -> n + HASH_SIZE
                 [] x \in Key -> PKCS7_Padding(n)
                 [] OTHER -> n + HASH_SIZE + 16

\* One word more: the size is a number, and after padding not zero.
LEMMA GrownNat ==
    ASSUME NEW n \in Nat, NEW x
    PROVE  Grown(n, x) \in Nat /\ (x \in Key => Grown(n, x) > 0)
<1>1. CASE x \in DOMAIN Text
  <2>1. x \notin Key /\ x # "hash"
    BY <1>1, SecretsAssumption
  <2>2. Grown(n, x) = Text[x]
    BY <1>1, <2>1 DEF Grown
  <2> QED
    BY <1>1, <2>1, <2>2, SecretsAssumption
<1>2. CASE x = "hash"
  <2>1. x \notin Key /\ x \notin DOMAIN Text
    BY <1>2, SecretsAssumption
  <2>2. Grown(n, x) = n + 32
    BY <1>2, <2>1 DEF Grown, HASH_SIZE
  <2> QED
    BY <2>1, <2>2
<1>3. CASE x \in Key
  <2>1. x # "hash" /\ x \notin DOMAIN Text
    BY <1>3, SecretsAssumption
  <2>2. Grown(n, x) = (n \div 16 + 1) * 16
    BY <1>3, <2>1 DEF Grown, PKCS7_Padding
  <2>3. n \div 16 \in Nat
    OBVIOUS
  <2> QED
    BY <2>2, <2>3
<1>4. CASE x \notin DOMAIN Text /\ x # "hash" /\ x \notin Key
  <2>1. Grown(n, x) = n + 32 + 16
    BY <1>4 DEF Grown, HASH_SIZE
  <2> QED
    BY <1>4, <2>1
<1> QED
  BY <1>1, <1>2, <1>3, <1>4

Sums(it, c, n) ==
    it = [s \in SUBSET (1..n) |-> IF s = {} THEN 0 ELSE Grown(it[s \ {Max(s)}], c[Max(s)])]

\* Size is the fold over the positions of the words.
LEMMA SizeIsSum ==
    ASSUME NEW c \in Seq(Word)
    PROVE  Size(c) = (CHOOSE it : Sums(it, c, Len(c)))[1..Len(c)]
<1>1. DOMAIN c = 1..Len(c)
  OBVIOUS
<1>2. Size(c) = (CHOOSE it : it = [s \in SUBSET (DOMAIN c) |-> IF s = {} THEN 0
                           ELSE Grown(it[s \ {Max(s)}], c[Max(s)])])[DOMAIN c]
  BY DEF Size, FoldLeft, MapThenFoldSet, Grown
<1> QED
  BY <1>1, <1>2 DEF Sums

\* The function that the fold defines exists, by induction over the length.
LEMMA SumsExist ==
    ASSUME NEW c, NEW n \in Nat
    PROVE  \E it : Sums(it, c, n)
<1> DEFINE P == {m \in Nat : \E it : Sums(it, c, m)}
<1>1. 0 \in P
  <2> DEFINE f == [s \in SUBSET (1..0) |-> 0]
  <2>1. \A s \in SUBSET (1..0) : s = {}
    OBVIOUS
  <2>2. f = [s \in SUBSET (1..0) |-> IF s = {} THEN 0 ELSE Grown(f[s \ {Max(s)}], c[Max(s)])]
    BY <2>1
  <2>3. Sums(f, c, 0)
    BY <2>2 DEF Sums
  <2> QED
    BY <2>3
<1>2. ASSUME NEW m \in Nat, m \in P PROVE m + 1 \in P
  <2>1. PICK f : Sums(f, c, m)
    BY <1>2
  <2>2. \A s \in SUBSET (1..m) :
           f[s] = IF s = {} THEN 0 ELSE Grown(f[s \ {Max(s)}], c[Max(s)])
    BY <2>1 DEF Sums
  <2> DEFINE g == [s \in SUBSET (1..(m + 1)) |->
                      IF m + 1 \in s THEN Grown(f[s \ {m + 1}], c[m + 1]) ELSE f[s]]
  <2>3. ASSUME NEW s \in SUBSET (1..(m + 1))
        PROVE  g[s] = IF s = {} THEN 0 ELSE Grown(g[s \ {Max(s)}], c[Max(s)])
    <3>1. CASE m + 1 \in s
      <4>1. Max(s) \in s /\ \A y \in s : Max(s) >= y
        <5>1. m + 1 \in Nat /\ s \subseteq 1..(m + 1) /\ s # {}
          BY <3>1
        <5> HIDE DEF g
        <5> QED
          BY <5>1, GreatestMember
      <4>2. Max(s) = m + 1
        <5>1. Max(s) >= m + 1 /\ Max(s) \in 1..(m + 1)
          BY <3>1, <4>1
        <5> HIDE DEF g
        <5> QED
          BY <5>1
      <4>3. s \ {m + 1} \in SUBSET (1..m) /\ s \ {m + 1} \in SUBSET (1..(m + 1))
        OBVIOUS
      <4>4. g[s \ {m + 1}] = f[s \ {m + 1}]
        BY <4>3
      <4>5. g[s] = Grown(f[s \ {m + 1}], c[m + 1])
        BY <3>1
      <4> HIDE DEF g
      <4> QED
        BY <3>1, <4>2, <4>4, <4>5
    <3>2. CASE m + 1 \notin s
      <4>1. s \in SUBSET (1..m)
        BY <3>2
      <4>2. g[s] = f[s]
        BY <3>2
      <4>3. CASE s # {}
        <5>1. s \ {Max(s)} \in SUBSET (1..m) /\ s \ {Max(s)} \in SUBSET (1..(m + 1))
              /\ m + 1 \notin s \ {Max(s)}
          BY <3>2, <4>1
        <5>2. g[s \ {Max(s)}] = f[s \ {Max(s)}]
          BY <5>1
        <5> HIDE DEF g
        <5> QED
          BY <2>2, <4>1, <4>2, <4>3, <5>2
      <4> HIDE DEF g
      <4> QED
        BY <2>2, <4>1, <4>2, <4>3
    <3> QED
      BY <3>1, <3>2
  <2>4. g = [s \in SUBSET (1..(m + 1)) |->
                IF s = {} THEN 0 ELSE Grown(g[s \ {Max(s)}], c[Max(s)])]
    <3>1. g = [s \in SUBSET (1..(m + 1)) |-> g[s]]
      OBVIOUS
    <3> HIDE DEF g
    <3> QED
      BY <2>3, <3>1
  <2>5. Sums(g, c, m + 1)
    BY <2>4 DEF Sums
  <2> QED
    BY <2>5
<1> HIDE DEF P
<1>3. \A m \in Nat : m >= 0 => m \in P
  BY <1>1, <1>2, SetInduction
<1> QED
  BY <1>3 DEF P

\* The sizes of the prefixes.
LEMMA SumStep ==
    ASSUME NEW it, NEW c, NEW n \in Nat, Sums(it, c, n), NEW m \in 1..n
    PROVE  it[1..m] = Grown(it[1..(m - 1)], c[m])
<1>1. 1..m \in SUBSET (1..n) /\ 1..m # {} /\ m \in 1..m /\ m \in Nat
  OBVIOUS
<1>2. it[1..m] = Grown(it[(1..m) \ {Max(1..m)}], c[Max(1..m)])
  BY <1>1 DEF Sums
<1>3. Max(1..m) \in 1..m /\ \A y \in 1..m : Max(1..m) >= y
  BY <1>1, GreatestMember
<1>4. Max(1..m) = m
  BY <1>1, <1>3
<1>5. (1..m) \ {m} = 1..(m - 1)
  BY <1>1
<1> QED
  BY <1>2, <1>4, <1>5

\* The size of every prefix is a number.
LEMMA SumNat ==
    ASSUME NEW it, NEW c, NEW n \in Nat, Sums(it, c, n), NEW m \in 0..n
    PROVE  it[1..m] \in Nat
<1> DEFINE P == {i \in Nat : i <= n => it[1..i] \in Nat}
<1>1. 0 \in P
  <2>1. 1..0 = {} /\ 1..0 \in SUBSET (1..n)
    OBVIOUS
  <2>2. it[1..0] = 0
    BY <2>1 DEF Sums
  <2> QED
    BY <2>2
<1>2. ASSUME NEW i \in Nat, i \in P PROVE i + 1 \in P
  <2>1. SUFFICES ASSUME i + 1 <= n PROVE it[1..(i + 1)] \in Nat
    OBVIOUS
  <2>2. i + 1 \in 1..n /\ (i + 1) - 1 = i /\ it[1..i] \in Nat
    BY <1>2, <2>1
  <2>3. it[1..(i + 1)] = Grown(it[1..((i + 1) - 1)], c[i + 1])
    BY <2>2, SumStep
  <2>4. it[1..(i + 1)] = Grown(it[1..i], c[i + 1])
    BY <2>2, <2>3
  <2> QED
    BY <2>2, <2>4, GrownNat
<1> HIDE DEF P
<1>3. \A i \in Nat : i >= 0 => i \in P
  BY <1>1, <1>2, SetInduction
<1> QED
  BY <1>3 DEF P

\* A file that is gone has the size 0: the check of its hash is not refused.
LEMMA SizeOfNone == Size(Absent) = 0
<1>1. Absent \in Seq(Word) /\ Len(Absent) = 0
  BY DEF Absent
<1> DEFINE it == CHOOSE f : Sums(f, Absent, 0)
<1>2. Sums(it, Absent, 0)
  BY SumsExist
<1>3. Size(Absent) = it[1..0]
  BY <1>1, SizeIsSum
<1>4. 1..0 = {} /\ 1..0 \in SUBSET (1..0)
  OBVIOUS
<1> HIDE DEF it
<1> QED
  BY <1>2, <1>3, <1>4 DEF Sums

\* Padding adds at least a byte, so an encrypted file is never taken for an empty one.
LEMMA SizeOfEncrypted ==
    ASSUME NEW c \in Seq(Word), NEW k \in Key
    PROVE  Size(Append(c, k)) > 0
<1>1. k \in Word
  BY Marks
<1>2. PICK d : d = Append(c, k)
  OBVIOUS
<1>3. d \in Seq(Word) /\ Len(d) = Len(c) + 1 /\ Len(c) \in Nat /\ d[Len(c) + 1] = k
  BY <1>1, <1>2, AppendFacts
<1>4. PICK n \in Nat : n = Len(d) /\ n \in 1..n /\ n - 1 \in 0..n /\ d[n] = k
  BY <1>3
<1> DEFINE it == CHOOSE f : Sums(f, d, n)
<1>5. Sums(it, d, n)
  BY SumsExist
<1>6. Size(d) = it[1..n]
  BY <1>3, <1>4, SizeIsSum
<1> HIDE DEF it
<1>7. it[1..n] = Grown(it[1..(n - 1)], d[n])
  BY <1>4, <1>5, SumStep
<1>8. it[1..(n - 1)] \in Nat
  BY <1>4, <1>5, SumNat
<1>9. Grown(it[1..(n - 1)], k) > 0
  BY <1>8, GrownNat
<1> QED
  BY <1>2, <1>4, <1>6, <1>7, <1>9

----------------------------------------------------------------------------
(* What a step leaves alone.                                               *)

\* A file whose bytes and attributes the step does not change.
LEMMA FileSame ==
    ASSUME NEW f \in File, FileOK(f), content'[f] = content[f], attr'[f] = attr[f],
           plain'[f] = plain[f], seals \subseteq seals',
           content[f] = Absent => f \notin deny',
           f \in spoiled => f \in spoiled',
           \A k \in Key : HasKey(f, k) => HasKey(f, k)',
           \A k \in Key : cmd.op = "keys" /\ cmd.file = f /\ cmd.key = k =>
               HasKey(f, k)' \/ (cmd.op = "keys" /\ cmd.file = f /\ cmd.key = k)'
    PROVE  FileOK(f)'
<1>1. Sealed(content[f], seals')
  BY DEF FileOK, Sealed
<1>2. RecoverAt(f)'
  <2>1. SUFFICES ASSUME content[f] # Absent, f \notin spoiled'
                 PROVE  /\ "encrypted" \notin attr[f] => content[f] = plain[f]
                        /\ "encrypted" \in attr[f] =>
                              \E k \in Key :
                                  /\ content[f] = Append(plain[f], k)
                                  /\ \/ HasKey(f, k)'
                                     \/ (cmd.op = "keys" /\ cmd.file = f /\ cmd.key = k)'
    BY DEF RecoverAt, Exists
  <2>2. /\ "encrypted" \notin attr[f] => content[f] = plain[f]
        /\ "encrypted" \in attr[f] =>
              \E k \in Key : /\ content[f] = Append(plain[f], k)
                             /\ \/ HasKey(f, k)
                                \/ cmd.op = "keys" /\ cmd.file = f /\ cmd.key = k
    BY <2>1 DEF FileOK, RecoverAt, Exists
  <2> QED
    BY <2>2
<1> QED
  BY <1>1, <1>2 DEF FileOK

\* A loader, while files only come to exist and hashes only are added.
LEMMA LoaderMono ==
    ASSUME NEW r, NEW ct, NEW dt, NEW S, NEW T, LoaderOK(r, ct, S), S \subseteq T,
           r.pc \in {"write", "flag"} => (ct[r.file] # Absent => dt[r.file] # Absent)
    PROVE  LoaderOK(r, dt, T)
<1>1. r.pc = "sha" => Bytes(r.first, T) /\ r.first # Absent
  BY BytesMono DEF LoaderOK
<1>2. r.pc = "load" /\ r.verdict = "right" => {r.seen, Append(r.seen, "hash")} \cap T # {}
  BY DEF LoaderOK
<1> QED
  BY <1>1, <1>2 DEF LoaderOK

\* The loaders of a step that changes only one of them, or none.
LEMMA LoadersStep ==
    ASSUME LoadersOK, NEW l \in Loader, NEW r, loader' = [loader EXCEPT ![l] = r],
           LoaderOK(r, content', seals'), seals \subseteq seals',
           \A f \in File : content[f] # Absent => content'[f] # Absent
    PROVE  LoadersOK'
<1>1. DOMAIN loader' = Loader /\ loader'[l] = r
  BY DEF LoadersOK
<1>2. ASSUME NEW m \in Loader PROVE LoaderOK(loader'[m], content', seals')
  <2>1. CASE m = l
    BY <1>1, <2>1
  <2>2. CASE m # l
    <3>1. loader'[m] = loader[m] /\ LoaderOK(loader[m], content, seals)
      BY <2>2 DEF LoadersOK
    <3>2. loader[m].pc \in {"write", "flag"} => loader[m].file \in File
      BY <3>1 DEF LoaderOK
    <3>3. LoaderOK(loader[m], content', seals')
      BY <3>1, <3>2, LoaderMono
    <3> QED
      BY <3>1, <3>3
  <2> QED
    BY <2>1, <2>2
<1> QED
  BY <1>1, <1>2 DEF LoadersOK

\* The loaders of a step of the shell.
LEMMA LoadersSame ==
    ASSUME LoadersOK, loader' = loader, seals \subseteq seals',
           \A f \in File : content[f] # Absent => content'[f] # Absent
    PROVE  LoadersOK'
<1>1. ASSUME NEW m \in Loader PROVE LoaderOK(loader[m], content', seals')
  <2>1. LoaderOK(loader[m], content, seals)
    BY DEF LoadersOK
  <2>2. loader[m].pc \in {"write", "flag"} => loader[m].file \in File
    BY <2>1 DEF LoaderOK
  <2> QED
    BY <2>1, <2>2, LoaderMono
<1> QED
  BY <1>1 DEF LoadersOK

\* Removing a file leaves no loader that would write to it.
LEMMA LoadersDetached ==
    ASSUME LoadersOK, NEW f \in File, loader' = Detached(f), seals \subseteq seals',
           \A g \in File : g # f /\ content[g] # Absent => content'[g] # Absent
    PROVE  LoadersOK'
<1>1. DOMAIN loader' = Loader
  BY DEF Detached
<1>2. ASSUME NEW m \in Loader PROVE LoaderOK(loader'[m], content', seals')
  <2>1. LoaderOK(loader[m], content, seals)
    BY DEF LoadersOK
  <2>2. CASE loader[m].pc \in {"write", "flag"} /\ loader[m].file = f
    <3>1. loader'[m] = [pc |-> "load", file |-> f, verdict |-> "appended", seen |-> Absent]
      BY <2>2 DEF Detached
    <3> QED
      BY <3>1 DEF LoaderOK
  <2>3. CASE ~(loader[m].pc \in {"write", "flag"} /\ loader[m].file = f)
    <3>1. loader'[m] = loader[m]
      BY <2>3 DEF Detached
    <3>2. loader[m].pc \in {"write", "flag"} => loader[m].file \in File /\ loader[m].file # f
      BY <2>1, <2>3 DEF LoaderOK
    <3>3. LoaderOK(loader[m], content', seals')
      BY <2>1, <3>2, LoaderMono
    <3> QED
      BY <3>1, <3>3
  <2> QED
    BY <2>2, <2>3
<1> QED
  BY <1>1, <1>2 DEF LoadersOK

\* A step that does not touch /keys.
LEMMA KeysSame ==
    ASSUME KeysOK, keys' = keys
    PROVE  KeysOK' /\ \A f, k : HasKey(f, k)' <=> HasKey(f, k)
<1>1. KeysOK'
  BY DEF KeysOK
<1> QED
  BY <1>1, HasKeyHolds, HasKeyHoldsNext

\* A step of a loader that changes nothing but itself and the mark of a file.
LEMMA LoaderOnly ==
    ASSUME IInv, NEW l \in Loader, NEW r, loader' = [loader EXCEPT ![l] = r],
           LoaderOK(r, content, seals),
           UNCHANGED <<content, attr, keys, cmd, history>>, cmds' \in 0..MAX_CMDS,
           deny' \subseteq File, \A f \in deny' \ deny : content[f] # Absent
    PROVE  IInv'
<1>1. /\ content' = content /\ attr' = attr /\ keys' = keys /\ cmd' = cmd
      /\ plain' = plain /\ seals' = seals /\ spoiled' = spoiled
  BY DEF history
<1>2. Types'
  BY <1>1 DEF IInv, Types
<1>3. KeysOK' /\ \A f, k : HasKey(f, k)' <=> HasKey(f, k)
  BY <1>1, KeysSame DEF IInv
<1>4. ASSUME NEW f \in File PROVE FileOK(f)'
  <2>1. FileOK(f)
    BY DEF IInv
  <2>2. content[f] = Absent => f \notin deny'
    BY <2>1 DEF FileOK
  <2> QED
    BY <1>1, <1>3, <2>1, <2>2, FileSame
<1>5. CmdOK'
  BY <1>1, <1>3 DEF IInv, CmdOK, Exists
<1>6. LoadersOK'
  BY <1>1, LoadersStep DEF IInv
<1> QED
  BY <1>2, <1>3, <1>4, <1>5, <1>6 DEF IInv

\* A command that starts, or ends, without changing a file.
LEMMA CommandOnly ==
    ASSUME IInv, cmd.op # "keys", CmdOK',
           UNCHANGED <<content, attr, keys, loader, history>>, cmds' \in 0..MAX_CMDS,
           deny' \subseteq File, \A f \in deny' \ deny : content[f] # Absent
    PROVE  IInv'
<1>1. /\ content' = content /\ attr' = attr /\ keys' = keys /\ loader' = loader
      /\ plain' = plain /\ seals' = seals /\ spoiled' = spoiled
  BY DEF history
<1>2. Types'
  BY <1>1 DEF IInv, Types
<1>3. KeysOK' /\ \A f, k : HasKey(f, k)' <=> HasKey(f, k)
  BY <1>1, KeysSame DEF IInv
<1>4. ASSUME NEW f \in File PROVE FileOK(f)'
  <2>1. FileOK(f)
    BY DEF IInv
  <2>2. content[f] = Absent => f \notin deny'
    BY <2>1 DEF FileOK
  <2> QED
    BY <1>1, <1>3, <2>1, <2>2, FileSame
<1>5. LoadersOK'
  BY <1>1, LoadersSame DEF IInv
<1> QED
  BY <1>2, <1>3, <1>4, <1>5 DEF IInv

----------------------------------------------------------------------------
(* The steps of a loader that write nothing.                               *)

\* A digest that is not of any bytes differs from every digest that is.
LEMMA NoWord ==
    ASSUME NEW c \in Seq(Word), NEW x, x \notin Word
    PROVE  /\ Append(c, x) \notin Seq(Word)
           /\ \A y : \A d \in Seq(Word) : Append(c, x) = Append(d, y) => x = y
<1>1. c \in Seq(Word \cup {x})
  BY SeqMonotonic
<1>2. Len(Append(c, x)) = Len(c) + 1 /\ Len(c) \in Nat /\ Append(c, x)[Len(c) + 1] = x
  BY <1>1
<1>3. Append(c, x) \notin Seq(Word)
  <2>1. SUFFICES ASSUME Append(c, x) \in Seq(Word) PROVE FALSE
    OBVIOUS
  <2>2. Len(c) + 1 \in 1..Len(Append(c, x))
    BY <1>2
  <2>3. Append(c, x)[Len(c) + 1] \in Word
    BY <2>1, <2>2, ElementOfSeq
  <2> QED
    BY <1>2, <2>3
<1>4. ASSUME NEW d \in Seq(Word), NEW y, Append(c, x) = Append(d, y) PROVE x = y
  <2>1. d \in Seq(Word \cup {y})
    BY SeqMonotonic
  <2>2. Len(Append(d, y)) = Len(d) + 1 /\ Len(d) \in Nat /\ Append(d, y)[Len(d) + 1] = y
    BY <2>1
  <2>3. Len(d) = Len(c)
    BY <1>2, <1>4, <2>2
  <2> QED
    BY <1>2, <1>4, <2>2, <2>3
<1> QED
  BY <1>3, <1>4

\* The three cases of SHA256, one by one.
LEMMA ShaFacts ==
    ASSUME NEW c, NEW flags
    PROVE  /\ "hashed" \notin flags => SHA256(c, flags) = c
           /\ "hashed" \in flags /\ Last(c) = "hash" => SHA256(c, flags) = Front(c)
           /\ "hashed" \in flags /\ Last(c) # "hash" => SHA256(c, flags) = Append(c, "cut")
BY DEF SHA256, Hashed

\* A check that comes out right was of bytes with the hash of what precedes it.
LEMMA RightIsSealed ==
    ASSUME NEW S, NEW first, NEW c, NEW flags, Bytes(first, S), first # Absent,
           Bytes(c, S), c # Absent, StoredHash(first) = SHA256(c, flags)
    PROVE  {c, Append(c, "hash")} \cap S # {}
<1>1. first \in Seq(Word) /\ c \in Seq(Word)
  BY DEF Bytes
<1>2. /\ Front(first) \in Seq(Word) /\ first = Append(Front(first), Last(first))
      /\ Front(c) \in Seq(Word) /\ c = Append(Front(c), Last(c))
  BY <1>1, FrontFacts
<1>3. CASE Last(first) = "hash"
  <2>1. first \in S /\ StoredHash(first) = Front(first)
    BY <1>3, BytesLast DEF StoredHash, Hashed
  <2>2. CASE "hashed" \notin flags
    <3>1. c = Front(first)
      BY <2>1, <2>2, ShaFacts
    <3>2. Append(c, "hash") = first
      BY <1>2, <1>3, <3>1
    <3> QED
      BY <2>1, <3>2
  <2>3. CASE "hashed" \in flags /\ Last(c) = "hash"
    <3>1. Front(c) = Front(first)
      BY <2>1, <2>3, ShaFacts
    <3>2. c = first
      BY <1>2, <1>3, <2>3, <3>1
    <3> QED
      BY <2>1, <3>2
  <2>4. CASE "hashed" \in flags /\ Last(c) # "hash"
    <3>1. Append(c, "cut") = Front(first)
      BY <2>1, <2>4, ShaFacts
    <3> QED
      BY <1>1, <1>2, <3>1, Marks, NoWord
  <2> QED
    BY <2>2, <2>3, <2>4
<1>4. CASE Last(first) # "hash"
  <2>1. StoredHash(first) = Append(first, "last")
    BY <1>4 DEF StoredHash, Hashed
  <2>2. Append(first, "last") \notin Seq(Word)
    BY <1>1, Marks, NoWord
  <2>3. SHA256(c, flags) = Append(c, "cut")
    BY <1>1, <1>2, <2>1, <2>2, ShaFacts
  <2>4. Append(c, "cut") = Append(first, "last")
    BY <2>1, <2>3
  <2>5. "cut" = "last"
    BY <1>1, <2>4, Marks, NoWord
  <2> QED
    BY <2>5
<1> QED
  BY <1>3, <1>4

LEMMA StepProgram ==
    ASSUME IInv, NEW l \in Loader, NEW f \in File, process_program(l, f)
    PROVE  IInv'
<1> DEFINE r == [pc |-> IF "hashed" \in attr[f] THEN "verify" ELSE "hash", file |-> f]
<1>1. /\ loader' = [loader EXCEPT ![l] = r] /\ deny' = deny \ {f} /\ cmds' = cmds + 1
      /\ cmds < MAX_CMDS /\ UNCHANGED <<content, attr, keys, cmd, history>>
  BY DEF process_program, Goto
<1>2. LoaderOK(r, content, seals)
  BY DEF LoaderOK
<1>3. cmds' \in 0..MAX_CMDS /\ deny' \subseteq File
  BY <1>1, SecretsAssumption DEF IInv, Types
<1> HIDE DEF r
<1> QED
  BY <1>1, <1>2, <1>3, LoaderOnly

\* What is known of the file a loader has opened.
LEMMA OfLoader ==
    ASSUME IInv, NEW l \in Loader, loader[l].pc # "idle"
    PROVE  /\ LoaderOK(loader[l], content, seals) /\ loader[l].file \in File
           /\ Bytes(content[loader[l].file], seals)
           /\ cmds \in 0..MAX_CMDS /\ deny \subseteq File /\ attr[loader[l].file] \subseteq Attr
<1>1. LoaderOK(loader[l], content, seals)
  BY DEF IInv, LoadersOK
<1>2. loader[l].file \in File
  BY <1>1 DEF LoaderOK
<1>3. content[loader[l].file] \in Seq(Word) /\ FileOK(loader[l].file)
  BY <1>2 DEF IInv, Types
<1> QED
  BY <1>1, <1>2, <1>3 DEF IInv, Types, FileOK, Bytes

LEMMA StepVerify ==
    ASSUME IInv, NEW l \in Loader, verify_program_hash(l)
    PROVE  IInv'
<1>1. PICK f : f = loader[l].file
  OBVIOUS
<1>2. loader[l].pc = "verify"
  BY DEF verify_program_hash, At
<1>3. f \in File /\ Bytes(content[f], seals) /\ cmds \in 0..MAX_CMDS /\ deny \subseteq File
  BY <1>1, <1>2, OfLoader
<1> DEFINE r == IF ~Exists(f) \/ Size(content[f]) <= HASH_SIZE
                THEN [pc |-> "load", file |-> f, verdict |-> "fault", seen |-> content[f]]
                ELSE [pc |-> "sha", file |-> f, first |-> content[f]]
<1>4. /\ loader' = [loader EXCEPT ![l] = r] /\ deny' = deny \ {f} /\ cmds' = cmds
      /\ UNCHANGED <<content, attr, keys, cmd, history>>
  BY <1>1 DEF verify_program_hash, Goto
<1>5. LoaderOK(r, content, seals)
  <2>1. CASE ~Exists(f) \/ Size(content[f]) <= HASH_SIZE
    <3>1. r = [pc |-> "load", file |-> f, verdict |-> "fault", seen |-> content[f]]
      BY <2>1
    <3>2. Size(content[f]) <= HASH_SIZE
      BY <2>1, SizeOfNone DEF Exists, HASH_SIZE
    <3> HIDE DEF r
    <3> QED
      BY <1>3, <3>1, <3>2 DEF LoaderOK
  <2>2. CASE ~(~Exists(f) \/ Size(content[f]) <= HASH_SIZE)
    <3>1. r = [pc |-> "sha", file |-> f, first |-> content[f]] /\ content[f] # Absent
      BY <2>2 DEF Exists
    <3> HIDE DEF r
    <3> QED
      BY <1>3, <3>1 DEF LoaderOK
  <2> QED
    BY <2>1, <2>2
<1> HIDE DEF r
<1>6. cmds' \in 0..MAX_CMDS /\ deny' \subseteq File /\ \A g \in deny' \ deny : content[g] # Absent
  BY <1>3, <1>4
<1> QED
  BY <1>4, <1>5, <1>6, LoaderOnly

LEMMA StepVerifySha ==
    ASSUME IInv, NEW l \in Loader, verify_sha(l)
    PROVE  IInv'
<1>1. PICK f : f = loader[l].file
  OBVIOUS
<1>2. loader[l].pc = "sha"
  BY DEF verify_sha, At
<1>3. /\ f \in File /\ Bytes(content[f], seals) /\ cmds \in 0..MAX_CMDS /\ deny \subseteq File
      /\ attr[f] \subseteq Attr /\ LoaderOK(loader[l], content, seals)
  BY <1>1, <1>2, OfLoader
<1>4. PICK first : first = loader[l].first /\ Bytes(first, seals) /\ first # Absent
  BY <1>2, <1>3 DEF LoaderOK
<1> DEFINE right == Exists(f) /\ StoredHash(first) = SHA256(content[f], attr[f])
           r == [pc |-> IF right THEN "load" ELSE "refused", file |-> f, verdict |-> "right",
                 seen |-> content[f], flags |-> attr[f], first |-> first]
<1>5. /\ loader' = [loader EXCEPT ![l] = r] /\ deny' = deny \ {f} /\ cmds' = cmds
      /\ UNCHANGED <<content, attr, keys, cmd, history>>
  BY <1>1, <1>4 DEF verify_sha, Goto
<1>6. right => {content[f], Append(content[f], "hash")} \cap seals # {}
  BY <1>3, <1>4, RightIsSealed DEF Exists
<1>7. ~right /\ content[f] = first /\ "hashed" \in attr[f] => Last(content[f]) # "hash"
  BY <1>4, ShaFacts DEF Exists, StoredHash, Hashed
<1> HIDE DEF right
<1>8. LoaderOK(r, content, seals)
  BY <1>3, <1>6, <1>7 DEF LoaderOK
<1> HIDE DEF r
<1>9. cmds' \in 0..MAX_CMDS /\ deny' \subseteq File /\ \A g \in deny' \ deny : content[g] # Absent
  BY <1>3, <1>5
<1> QED
  BY <1>5, <1>8, <1>9, LoaderOnly

LEMMA StepAppendSha ==
    ASSUME IInv, NEW l \in Loader, append_sha(l)
    PROVE  IInv'
<1>1. PICK f : f = loader[l].file
  OBVIOUS
<1>2. loader[l].pc = "hash"
  BY DEF append_sha, At
<1>3. f \in File /\ cmds \in 0..MAX_CMDS /\ deny \subseteq File
  BY <1>1, <1>2, OfLoader
<1> DEFINE r == [pc |-> "append", file |-> f,
                 hash |-> IF Exists(f) THEN SHA256(content[f], attr[f]) ELSE Junk]
<1>4. /\ loader' = [loader EXCEPT ![l] = r] /\ deny' = deny \ {f} /\ cmds' = cmds
      /\ UNCHANGED <<content, attr, keys, cmd, history>>
  BY <1>1 DEF append_sha, Goto
<1>5. LoaderOK(r, content, seals)
  BY <1>3 DEF LoaderOK
<1> HIDE DEF r
<1>6. cmds' \in 0..MAX_CMDS /\ deny' \subseteq File /\ \A g \in deny' \ deny : content[g] # Absent
  BY <1>3, <1>4
<1> QED
  BY <1>4, <1>5, <1>6, LoaderOnly

LEMMA StepAppendOpen ==
    ASSUME IInv, NEW l \in Loader, append_open(l)
    PROVE  IInv'
<1>1. PICK f : f = loader[l].file
  OBVIOUS
<1>2. loader[l].pc = "append"
  BY DEF append_open, At
<1>3. /\ f \in File /\ cmds \in 0..MAX_CMDS /\ deny \subseteq File
      /\ LoaderOK(loader[l], content, seals)
  BY <1>1, <1>2, OfLoader
<1>4. PICK h : loader[l] = [pc |-> "append", file |-> f, hash |-> h]
  BY <1>1, <1>2, <1>3 DEF LoaderOK
<1>5. cmds' = cmds /\ UNCHANGED <<content, attr, keys, cmd, history>>
  BY DEF append_open
<1>6. CASE openFileRDWR(f) /\ Goto(l, [loader[l] EXCEPT !.pc = "write"]) /\ deny' = deny \cup {f}
  <2>1. [loader[l] EXCEPT !.pc = "write"] = [pc |-> "write", file |-> f, hash |-> h]
    BY <1>4
  <2> DEFINE r == [pc |-> "write", file |-> f, hash |-> h]
  <2>2. loader' = [loader EXCEPT ![l] = r]
    BY <1>6, <2>1 DEF Goto
  <2>3. content[f] # Absent
    BY <1>6 DEF openFileRDWR, Exists
  <2>4. LoaderOK(r, content, seals)
    BY <1>3, <2>3 DEF LoaderOK
  <2> HIDE DEF r
  <2>5. cmds' \in 0..MAX_CMDS /\ deny' \subseteq File /\ \A g \in deny' \ deny : content[g] # Absent
    BY <1>3, <1>5, <1>6, <2>3
  <2> QED
    BY <1>5, <2>2, <2>4, <2>5, LoaderOnly
<1>7. CASE ~openFileRDWR(f) /\ Goto(l, Resting) /\ UNCHANGED deny
  <2>1. loader' = [loader EXCEPT ![l] = Resting]
    BY <1>7 DEF Goto
  <2>2. LoaderOK(Resting, content, seals)
    BY DEF LoaderOK, Resting
  <2>3. cmds' \in 0..MAX_CMDS /\ deny' \subseteq File /\ \A g \in deny' \ deny : content[g] # Absent
    BY <1>3, <1>5, <1>7
  <2> QED
    BY <1>5, <2>1, <2>2, <2>3, LoaderOnly
<1> QED
  BY <1>1, <1>6, <1>7 DEF append_open

LEMMA StepEnd ==
    ASSUME IInv, NEW l \in Loader, sys_execv(l) \/ refused(l)
    PROVE  IInv'
<1>1. /\ loader' = [loader EXCEPT ![l] = Resting] /\ cmds' = cmds /\ deny' \subseteq deny
      /\ UNCHANGED <<content, attr, keys, cmd, history>>
  BY DEF sys_execv, refused, Goto, files
<1>2. LoaderOK(Resting, content, seals)
  BY DEF LoaderOK, Resting
<1>3. cmds' \in 0..MAX_CMDS /\ deny' \subseteq File /\ \A g \in deny' \ deny : content[g] # Absent
  BY <1>1 DEF IInv, Types
<1> QED
  BY <1>1, <1>2, <1>3, LoaderOnly

----------------------------------------------------------------------------
(* The commands that start or end without a change of the files.           *)

\* What is known of a file.
LEMMA OfFile ==
    ASSUME IInv, NEW f \in File
    PROVE  /\ FileOK(f) /\ Bytes(content[f], seals) /\ content[f] \in Seq(Word)
           /\ plain[f] \in Seq(Word) /\ attr[f] \subseteq Attr
BY DEF IInv, Types, FileOK, Bytes

LEMMA StepSha ==
    ASSUME IInv, NEW f \in File, process_sha_command(f)
    PROVE  IInv'
<1>1. /\ cmds < MAX_CMDS /\ cmds' = cmds + 1 /\ cmd.op = "idle" /\ cmd' = Idle
      /\ deny' = deny \ {f} /\ UNCHANGED <<content, attr, keys, loader, history>>
  BY DEF process_sha_command, Start
<1>2. CmdOK'
  BY <1>1 DEF CmdOK, Idle
<1>3. cmds' \in 0..MAX_CMDS /\ deny' \subseteq File /\ \A g \in deny' \ deny : content[g] # Absent
  BY <1>1, SecretsAssumption DEF IInv, Types
<1> QED
  BY <1>1, <1>2, <1>3, CommandOnly

\* A command that has opened a file and read it.
LEMMA CommandRead ==
    ASSUME IInv, NEW f \in File, NEW k \in Key, NEW op \in {"enc", "dec", "edit"},
           Start(f, [op |-> op, file |-> f, key |-> k, seen |-> content[f], flags |-> attr[f]]),
           Exists(f), op = "enc" => "encrypted" \notin attr[f],
           op = "dec" => "encrypted" \in attr[f],
           op # "enc" /\ "encrypted" \in attr[f] => HasKey(f, k),
           deny' \in {deny, deny \cup {f}}, UNCHANGED <<content, attr, keys, loader, history>>
    PROVE  IInv'
<1>1. /\ cmds < MAX_CMDS /\ cmds' = cmds + 1 /\ cmd.op = "idle"
      /\ cmd' = [op |-> op, file |-> f, key |-> k, seen |-> content[f], flags |-> attr[f]]
  BY DEF Start
<1>2. /\ content' = content /\ attr' = attr /\ keys' = keys /\ seals' = seals
  BY DEF history
<1>3. KeysOK' /\ \A g, j : HasKey(g, j)' <=> HasKey(g, j)
  BY <1>2, KeysSame DEF IInv
<1>4. Bytes(content[f], seals) /\ attr[f] \subseteq Attr /\ content[f] # Absent
  BY OfFile DEF Exists
<1>5. /\ cmd'.op = op /\ cmd'.file = f /\ cmd'.key = k /\ cmd'.seen = content[f]
      /\ cmd'.flags = attr[f]
  BY <1>1
<1>6. CmdOK'
  BY <1>1, <1>2, <1>3, <1>4, <1>5 DEF CmdOK, Exists
<1>7. cmds' \in 0..MAX_CMDS /\ deny' \subseteq File /\ \A g \in deny' \ deny : content[g] # Absent
  BY <1>1, <1>4, SecretsAssumption DEF IInv, Types
<1> QED
  BY <1>1, <1>6, <1>7, CommandOnly

LEMMA StepEnc ==
    ASSUME IInv, NEW f \in File, NEW k \in Key, process_enc_command(f, k)
    PROVE  IInv'
<1>1. /\ Start(f, [op |-> "enc", file |-> f, key |-> k, seen |-> content[f], flags |-> attr[f]])
      /\ Exists(f) /\ "encrypted" \notin attr[f] /\ deny' \in {deny, deny \cup {f}}
      /\ UNCHANGED <<content, attr, keys, loader, history>>
  BY DEF process_enc_command, openFileRDWR
<1> QED
  BY <1>1, CommandRead

LEMMA StepDec ==
    ASSUME IInv, NEW f \in File, NEW k \in Key, process_dec_command(f, k)
    PROVE  IInv'
<1>1. /\ Start(f, [op |-> "dec", file |-> f, key |-> k, seen |-> content[f], flags |-> attr[f]])
      /\ Exists(f) /\ "encrypted" \in attr[f] /\ HasKey(f, k) /\ deny' \in {deny, deny \cup {f}}
      /\ UNCHANGED <<content, attr, keys, loader, history>>
  BY DEF process_dec_command, openFileRDWR
<1> QED
  BY <1>1, CommandRead

LEMMA StepEdit ==
    ASSUME IInv, NEW f \in File, NEW k \in Key, editor_main(f, k)
    PROVE  IInv'
<1>1. /\ Start(f, [op |-> "edit", file |-> f, key |-> k, seen |-> content[f], flags |-> attr[f]])
      /\ Exists(f) /\ ("encrypted" \in attr[f] => HasKey(f, k)) /\ deny' \in {deny, deny \cup {f}}
      /\ UNCHANGED <<content, attr, keys, loader, history>>
  BY DEF editor_main, openFileRDWR, files
<1> QED
  BY <1>1, CommandRead

LEMMA StepQuit == ASSUME IInv, editor_quit PROVE IInv'
<1>1. /\ cmds' = cmds /\ cmd.op = "edit" /\ cmd' = Idle
      /\ deny' = deny /\ UNCHANGED <<content, attr, keys, loader, history>>
  BY DEF editor_quit, files
<1>2. CmdOK'
  BY <1>1 DEF CmdOK, Idle
<1>3. cmds' \in 0..MAX_CMDS /\ deny' \subseteq File /\ \A g \in deny' \ deny : content[g] # Absent
  BY <1>1 DEF IInv, Types
<1> QED
  BY <1>1, <1>2, <1>3, CommandOnly

----------------------------------------------------------------------------
(* The steps that change a file.                                           *)

\* The bytes of one file are replaced by others that exist; what is said of the other files,
\* the types and the loaders follow.
LEMMA OneFile ==
    ASSUME IInv, NEW f \in File, NEW c, NEW p, NEW a \in SUBSET Attr,
           content' = [content EXCEPT ![f] = c], plain' = [plain EXCEPT ![f] = p],
           attr' = [attr EXCEPT ![f] = a],
           c \in Seq(Word), p \in Seq(Word), c # Absent, Bytes(c, seals'),
           seals \subseteq seals', \A s \in seals' : Last(s) = "hash",
           spoiled' \subseteq File, spoiled \ {f} \subseteq spoiled',
           deny' \subseteq File, \A g \in deny' \ deny : content[g] # Absent \/ g = f,
           cmds' \in 0..MAX_CMDS, KeysOK',
           \A g, j : g # f /\ HasKey(g, j) => HasKey(g, j)',
           cmd.op = "keys" => cmd.file = f \/ cmd' = cmd,
           RecoverAt(f)'
    PROVE  /\ Types' /\ KeysOK' /\ \A g \in File : FileOK(g)'
           /\ \A g \in File : content[g] # Absent => content'[g] # Absent
<1>1. content \in [File -> Seq(Word)] /\ plain \in [File -> Seq(Word)] /\ attr \in [File -> SUBSET Attr]
  BY DEF IInv, Types
<1>2. /\ content' \in [File -> Seq(Word)] /\ plain' \in [File -> Seq(Word)]
      /\ attr' \in [File -> SUBSET Attr]
      /\ content'[f] = c /\ plain'[f] = p /\ attr'[f] = a
      /\ \A g \in File : g # f => /\ content'[g] = content[g] /\ plain'[g] = plain[g]
                                  /\ attr'[g] = attr[g]
  BY <1>1
<1>3. Types'
  BY <1>2 DEF Types
<1>4. ASSUME NEW g \in File PROVE FileOK(g)'
  <2>1. CASE g = f
    BY <1>2, <2>1 DEF FileOK, Bytes
  <2>2. CASE g # f
    <3>1. FileOK(g)
      BY DEF IInv
    <3>2. content[g] = Absent => g \notin deny'
      BY <2>2, <3>1 DEF FileOK
    <3>3. \A k \in Key : cmd.op = "keys" /\ cmd.file = g /\ cmd.key = k =>
               HasKey(g, k)' \/ (cmd.op = "keys" /\ cmd.file = g /\ cmd.key = k)'
      BY <2>2
    <3>4. g \in spoiled => g \in spoiled'
      BY <2>2
    <3>5. \A k \in Key : HasKey(g, k) => HasKey(g, k)'
      BY <2>2
    <3> QED
      BY <1>2, <2>2, <3>1, <3>2, <3>3, <3>4, <3>5, FileSame
  <2> QED
    BY <2>1, <2>2
<1> QED
  BY <1>2, <1>3, <1>4

LEMMA StepTouch ==
    ASSUME IInv, NEW f \in File, process_touch_command(f)
    PROVE  IInv'
<1>1. /\ cmds < MAX_CMDS /\ cmds' = cmds + 1 /\ cmd.op = "idle" /\ cmd' = Idle
      /\ content[f] = Absent /\ content' = [content EXCEPT ![f] = <<EMPTY>>]
      /\ plain' = [plain EXCEPT ![f] = <<EMPTY>>] /\ spoiled' = spoiled \ {f}
      /\ attr' = attr /\ deny' = deny /\ keys' = keys /\ loader' = loader /\ seals' = seals
  BY DEF process_touch_command, Start, Exists
<1>2. /\ content \in [File -> Seq(Word)] /\ plain \in [File -> Seq(Word)]
      /\ attr \in [File -> SUBSET Attr] /\ deny \subseteq File /\ spoiled \subseteq File
      /\ \A s \in seals : Last(s) = "hash"
  BY DEF IInv, Types
<1>3. KeysOK' /\ \A g, j : HasKey(g, j)' <=> HasKey(g, j)
  BY <1>1, KeysSame DEF IInv
<1>4. Bytes(<<EMPTY>>, seals) /\ <<EMPTY>> # Absent /\ <<EMPTY>> \in Seq(Word)
  BY Marks, BytesOne
<1>5. attr[f] = {} /\ attr' = [attr EXCEPT ![f] = {}]
  BY <1>1, <1>2 DEF IInv, FileOK
<1>6. RecoverAt(f)'
  BY <1>1, <1>2, <1>5 DEF RecoverAt
<1>7. cmds' \in 0..MAX_CMDS
  BY <1>1, SecretsAssumption DEF IInv, Types
<1>8. /\ Types' /\ KeysOK' /\ \A g \in File : FileOK(g)'
      /\ \A g \in File : content[g] # Absent => content'[g] # Absent
  <2>1. {} \in SUBSET Attr
    OBVIOUS
  <2> QED
    BY <1>1, <1>2, <1>3, <1>4, <1>5, <1>6, <1>7, <2>1, OneFile
<1>9. CmdOK'
  BY <1>1 DEF CmdOK, Idle
<1>10. LoadersOK'
  BY <1>1, <1>8, LoadersSame DEF IInv
<1> QED
  BY <1>8, <1>9, <1>10 DEF IInv

LEMMA StepRm ==
    ASSUME IInv, NEW f \in File, process_rm_command(f)
    PROVE  IInv'
<1>1. /\ cmds < MAX_CMDS /\ cmds' = cmds + 1 /\ cmd.op = "idle" /\ cmd' = Idle
      /\ content' = [content EXCEPT ![f] = Absent] /\ attr' = [attr EXCEPT ![f] = {}]
      /\ deny' = deny \ {f} /\ loader' = Detached(f) /\ keys' = keys
      /\ plain' = plain /\ seals' = seals /\ spoiled' = spoiled
  BY DEF process_rm_command, Start, history
<1>2. /\ content \in [File -> Seq(Word)] /\ attr \in [File -> SUBSET Attr]
      /\ Absent \in Seq(Word)
  BY Marks DEF IInv, Types
<1>3. /\ content' \in [File -> Seq(Word)] /\ attr' \in [File -> SUBSET Attr]
      /\ content'[f] = Absent /\ attr'[f] = {}
      /\ \A g \in File : g # f => content'[g] = content[g] /\ attr'[g] = attr[g]
  BY <1>1, <1>2
<1>4. Types'
  BY <1>1, <1>3, SecretsAssumption DEF IInv, Types
<1>5. KeysOK' /\ \A g, j : HasKey(g, j)' <=> HasKey(g, j)
  BY <1>1, KeysSame DEF IInv
<1>6. ASSUME NEW g \in File PROVE FileOK(g)'
  <2>1. CASE g = f
    <3>1. Sealed(Absent, seals')
      BY BytesNone DEF Bytes
    <3> QED
      BY <1>1, <1>3, <2>1, <3>1 DEF FileOK, RecoverAt, Exists
  <2>2. CASE g # f
    <3>1. FileOK(g) /\ (content[g] = Absent => g \notin deny')
      BY <1>1 DEF IInv, FileOK
    <3> QED
      BY <1>1, <1>3, <1>5, <2>2, <3>1, FileSame
  <2> QED
    BY <2>1, <2>2
<1>7. CmdOK'
  BY <1>1 DEF CmdOK, Idle
<1>8. LoadersOK'
  BY <1>1, <1>3, LoadersDetached DEF IInv
<1> QED
  BY <1>4, <1>5, <1>6, <1>7, <1>8 DEF IInv

LEMMA StepEncWrite == ASSUME IInv, enc_write PROVE IInv'
<1>1. cmd.op = "enc" /\ CmdOK
  BY DEF enc_write, IInv
<1>2. PICK f \in File, k \in Key, seen \in Seq(Word), flags \in SUBSET Attr :
         /\ cmd = [op |-> "enc", file |-> f, key |-> k, seen |-> seen, flags |-> flags]
         /\ Bytes(seen, seals) /\ seen # Absent /\ content[f] # Absent /\ "encrypted" \notin flags
  BY <1>1 DEF CmdOK, Exists, Bytes
<1>3. PICK c : c = IF content[f] = seen THEN Append(seen, k) ELSE Junk
  OBVIOUS
<1>4. /\ cmd' = [op |-> "keys", file |-> f, key |-> k, seen |-> seen, flags |-> flags]
      /\ attr' = [attr EXCEPT ![f] = flags \cup {"encrypted"}] /\ deny' = deny \ {f}
      /\ spoiled' = IF content[f] # seen \/ attr[f] # flags THEN spoiled \cup {f} ELSE spoiled
      /\ keys' = keys /\ loader' = loader /\ plain' = plain /\ seals' = seals /\ cmds' = cmds
  BY <1>2 DEF enc_write, Spoils
<1>5. content' = [content EXCEPT ![f] = c]
  BY <1>2, <1>3 DEF enc_write, SM4_ECB_Encrypt
<1>6. /\ content \in [File -> Seq(Word)] /\ plain \in [File -> Seq(Word)]
      /\ attr \in [File -> SUBSET Attr] /\ deny \subseteq File /\ spoiled \subseteq File
      /\ cmds \in 0..MAX_CMDS /\ \A s \in seals : Last(s) = "hash"
  BY DEF IInv, Types
<1>7. Bytes(c, seals) /\ c \in Seq(Word) /\ c # Absent
  <2>1. Bytes(Junk, seals) /\ Junk # Absent
    BY Marks, BytesOne DEF Junk
  <2>2. k \in Word /\ k # "hash" /\ seen \in Seq(Word)
    BY <1>2, Marks DEF Bytes
  <2>3. Bytes(Append(seen, k), seals) /\ Append(seen, k) # Absent
    BY <1>2, <2>2, BytesAppend, AppendFacts
  <2> QED
    BY <1>3, <2>1, <2>3 DEF Bytes
<1>8. /\ content'[f] = c /\ attr'[f] = flags \cup {"encrypted"}
      /\ plain' = [plain EXCEPT ![f] = plain[f]] /\ plain[f] \in Seq(Word)
  BY <1>4, <1>5, <1>6
<1>9. f \notin spoiled' => c = Append(plain[f], k)
  <2>1. SUFFICES ASSUME f \notin spoiled' PROVE c = Append(plain[f], k)
    OBVIOUS
  <2>2. content[f] = seen /\ attr[f] = flags /\ f \notin spoiled
    BY <1>4, <2>1
  <2>3. FileOK(f)
    BY DEF IInv
  <2>4. content[f] = plain[f]
    BY <1>2, <2>2, <2>3 DEF FileOK, RecoverAt, Exists
  <2> QED
    BY <1>3, <2>2, <2>4
<1>10. cmd'.op = "keys" /\ cmd'.file = f /\ cmd'.key = k /\ cmd'.seen = seen /\ cmd'.flags = flags
  BY <1>4
<1>11. RecoverAt(f)'
  BY <1>4, <1>8, <1>9, <1>10 DEF RecoverAt
<1>12. KeysOK' /\ \A g, j : HasKey(g, j)' <=> HasKey(g, j)
  BY <1>4, KeysSame DEF IInv
<1>13. /\ Types' /\ KeysOK' /\ \A g \in File : FileOK(g)'
       /\ \A g \in File : content[g] # Absent => content'[g] # Absent
  <2>1. flags \cup {"encrypted"} \in SUBSET Attr
    BY DEF Attr
  <2>2. spoiled' \subseteq File /\ spoiled \ {f} \subseteq spoiled'
    BY <1>4, <1>6
  <2>3. deny' \subseteq File /\ deny' \subseteq deny /\ cmd.op # "keys"
    BY <1>1, <1>4, <1>6
  <2> QED
    BY <1>4, <1>5, <1>6, <1>7, <1>8, <1>11, <1>12, <2>1, <2>2, <2>3, OneFile
<1>14. CmdOK'
  BY <1>2, <1>4, <1>7, <1>8, <1>9, <1>10 DEF CmdOK, Exists
<1>15. LoadersOK'
  BY <1>4, <1>13, LoadersSame DEF IInv
<1> QED
  BY <1>13, <1>14, <1>15 DEF IInv

LEMMA StepEncKeys == ASSUME IInv, enc_keys PROVE IInv'
<1>1. /\ cmd.op = "keys" /\ CmdOK /\ cmd' = Idle /\ keys' = Record(cmd.file, cmd.key)
      /\ content' = content /\ attr' = attr /\ deny' = deny /\ loader' = loader
      /\ plain' = plain /\ seals' = seals /\ spoiled' = spoiled /\ cmds' = cmds
  BY DEF enc_keys, IInv, history
<1>2. PICK f \in File, k \in Key : f = cmd.file /\ k = cmd.key
  BY <1>1 DEF CmdOK
<1>3. KeysAre(keys)
  BY DEF IInv, KeysOK, KeysAre
<1>4. keys' = Recorded(keys, f, k)
  <2>1. KeyRecord(f) = RecordOf(keys, f)
    BY DEF KeyRecord, SelectInSeq, RecordOf, Places
  <2> QED
    BY <1>1, <1>2, <2>1 DEF Record, Recorded
<1>5. /\ KeysAre(keys') /\ Holds(keys', f, k)
      /\ \A g, j : g # f /\ Holds(keys, g, j) => Holds(keys', g, j)
  BY <1>3, <1>4, RecordKept
<1>6. KeysOK'
  BY <1>5 DEF KeysOK, KeysAre
<1>7. HasKey(f, k)'
  BY <1>5, <1>6, HasKeyHoldsNext
<1>8. \A g, j : g # f /\ HasKey(g, j) => HasKey(g, j)'
  BY <1>5, <1>6, HasKeyHoldsNext, HasKeyHolds DEF IInv
<1>9. ASSUME NEW g \in File PROVE FileOK(g)'
  <2>1. FileOK(g)
    BY DEF IInv
  <2>2. CASE g = f
    <3>1. f \notin spoiled => content[f] = Append(plain[f], k) /\ "encrypted" \in attr[f]
      BY <1>1, <1>2 DEF CmdOK
    <3>2. RecoverAt(f)'
      BY <1>1, <1>7, <3>1 DEF RecoverAt
    <3> QED
      BY <1>1, <2>1, <2>2, <3>2 DEF FileOK
  <2>3. CASE g # f
    <3>1. content[g] = Absent => g \notin deny'
      BY <1>1, <2>1 DEF FileOK
    <3> QED
      BY <1>1, <1>2, <1>8, <2>1, <2>3, <3>1, FileSame
  <2> QED
    BY <2>2, <2>3
<1>10. Types'
  BY <1>1 DEF IInv, Types
<1>11. CmdOK'
  BY <1>1 DEF CmdOK, Idle
<1>12. LoadersOK'
  BY <1>1, LoadersSame DEF IInv
<1> QED
  BY <1>6, <1>9, <1>10, <1>11, <1>12 DEF IInv

LEMMA StepDecWrite == ASSUME IInv, dec_write PROVE IInv'
<1>1. cmd.op = "dec" /\ CmdOK
  BY DEF dec_write, IInv
<1>2. PICK f \in File, k \in Key, seen \in Seq(Word), flags \in SUBSET Attr :
         /\ f = cmd.file /\ k = cmd.key /\ seen = cmd.seen /\ flags = cmd.flags
         /\ Bytes(seen, seals) /\ seen # Absent /\ content[f] # Absent /\ "encrypted" \in flags
  BY <1>1 DEF CmdOK, Exists, Bytes
<1>3. PICK text, c : text = SM4_ECB_Decrypt(seen, k) /\ c = IF content[f] = seen THEN text ELSE Junk
  OBVIOUS
<1>4. /\ cmd' = Idle /\ attr' = [attr EXCEPT ![f] = flags \ {"encrypted"}] /\ deny' = deny \ {f}
      /\ spoiled' = IF (content[f] # seen \/ attr[f] # flags) \/ text = Junk
                    THEN spoiled \cup {f} ELSE spoiled
      /\ keys' = keys /\ loader' = loader /\ plain' = plain /\ seals' = seals /\ cmds' = cmds
  BY <1>2, <1>3 DEF dec_write, Spoils
<1>5. content' = [content EXCEPT ![f] = c]
  BY <1>2, <1>3 DEF dec_write
<1>6. /\ content \in [File -> Seq(Word)] /\ plain \in [File -> Seq(Word)]
      /\ attr \in [File -> SUBSET Attr] /\ deny \subseteq File /\ spoiled \subseteq File
      /\ cmds \in 0..MAX_CMDS /\ \A s \in seals : Last(s) = "hash"
  BY DEF IInv, Types
<1>7. Bytes(c, seals) /\ c \in Seq(Word) /\ c # Absent
  <2>1. Bytes(Junk, seals) /\ Junk # Absent
    BY Marks, BytesOne DEF Junk
  <2>2. Bytes(text, seals) /\ text # Absent
    BY <1>2, <1>3, DecryptBytes
  <2> QED
    BY <1>3, <2>1, <2>2 DEF Bytes
<1>8. /\ content'[f] = c /\ attr'[f] = flags \ {"encrypted"}
      /\ plain' = [plain EXCEPT ![f] = plain[f]] /\ plain[f] \in Seq(Word)
  BY <1>4, <1>5, <1>6
<1>9. f \notin spoiled' => c = plain[f]
  <2>1. SUFFICES ASSUME f \notin spoiled' PROVE c = plain[f]
    OBVIOUS
  <2>2. content[f] = seen /\ attr[f] = flags /\ f \notin spoiled /\ text # Junk
    BY <1>4, <2>1
  <2>3. FileOK(f)
    BY DEF IInv
  <2>4. PICK j \in Key : content[f] = Append(plain[f], j)
    BY <1>2, <2>2, <2>3 DEF FileOK, RecoverAt, Exists
  <2>5. text = plain[f]
    BY <1>3, <1>8, <2>2, <2>4, DecryptEncrypt
  <2> QED
    BY <1>3, <2>2, <2>5
<1>10. RecoverAt(f)'
  BY <1>4, <1>8, <1>9 DEF RecoverAt
<1>11. KeysOK' /\ \A g, j : HasKey(g, j)' <=> HasKey(g, j)
  BY <1>4, KeysSame DEF IInv
<1>12. /\ Types' /\ KeysOK' /\ \A g \in File : FileOK(g)'
       /\ \A g \in File : content[g] # Absent => content'[g] # Absent
  <2>1. flags \ {"encrypted"} \in SUBSET Attr
    OBVIOUS
  <2>2. spoiled' \subseteq File /\ spoiled \ {f} \subseteq spoiled'
    BY <1>4, <1>6
  <2>3. deny' \subseteq File /\ deny' \subseteq deny /\ cmd.op # "keys"
    BY <1>1, <1>4, <1>6
  <2> QED
    BY <1>4, <1>5, <1>6, <1>7, <1>8, <1>10, <1>11, <2>1, <2>2, <2>3, OneFile
<1>13. CmdOK'
  BY <1>4 DEF CmdOK, Idle
<1>14. LoadersOK'
  BY <1>4, <1>12, LoadersSame DEF IInv
<1> QED
  BY <1>12, <1>13, <1>14 DEF IInv

LEMMA StepSave == ASSUME IInv, editor_save PROVE IInv'
<1>1. cmd.op = "edit" /\ CmdOK
  BY DEF editor_save, IInv
<1>2. PICK f \in File, k \in Key, seen \in Seq(Word), flags \in SUBSET Attr :
         /\ f = cmd.file /\ k = cmd.key /\ seen = cmd.seen /\ flags = cmd.flags
         /\ Bytes(seen, seals) /\ seen # Absent /\ content[f] # Absent
         /\ "encrypted" \in flags => HasKey(f, k)
  BY <1>1 DEF CmdOK, Exists, Bytes
<1>3. /\ cmd' = Idle /\ attr' = attr /\ deny' = deny /\ keys' = keys /\ loader' = loader
      /\ spoiled' = IF content[f] # seen \/ attr[f] # flags THEN spoiled \cup {f} ELSE spoiled
      /\ seals' = seals /\ cmds' = cmds
  BY <1>2 DEF editor_save, Spoils
<1>4. PICK p \in {<<t>> : t \in DOMAIN Text} \cup {Shown} :
         /\ content' = [content EXCEPT ![f] = IF content[f] = seen THEN Saved(p) ELSE Junk]
         /\ plain' = [plain EXCEPT ![f] = p]
  BY <1>2 DEF editor_save
<1>5. PICK c : c = IF content[f] = seen THEN Saved(p) ELSE Junk
  OBVIOUS
<1>6. content' = [content EXCEPT ![f] = c]
  BY <1>4, <1>5
<1>7. /\ content \in [File -> Seq(Word)] /\ plain \in [File -> Seq(Word)]
      /\ attr \in [File -> SUBSET Attr] /\ deny \subseteq File /\ spoiled \subseteq File
      /\ cmds \in 0..MAX_CMDS /\ \A s \in seals : Last(s) = "hash"
  BY DEF IInv, Types
<1>8. Bytes(p, seals) /\ p # Absent
  <2>1. CASE p = Shown
    <3>1. Shown = IF "encrypted" \in flags THEN SM4_ECB_Decrypt(seen, k) ELSE seen
      BY <1>2 DEF Shown
    <3> QED
      BY <1>2, <2>1, <3>1, DecryptBytes
  <2>2. CASE p \in {<<t>> : t \in DOMAIN Text}
    <3>1. PICK t \in DOMAIN Text : p = <<t>>
      BY <2>2
    <3>2. t \in Word /\ t # "hash"
      BY Marks
    <3> QED
      BY <3>1, <3>2, BytesOne
  <2> QED
    BY <1>4, <2>1, <2>2
<1>9. Saved(p) = IF "encrypted" \in flags THEN Append(p, k) ELSE p
  BY <1>2 DEF Saved, SM4_ECB_Encrypt
<1>10. Bytes(c, seals) /\ c # Absent
  <2>1. Bytes(Junk, seals) /\ Junk # Absent
    BY Marks, BytesOne DEF Junk
  <2>2. k \in Word /\ k # "hash" /\ p \in Seq(Word)
    BY <1>8, Marks DEF Bytes
  <2>3. Bytes(Append(p, k), seals) /\ Append(p, k) # Absent
    BY <1>8, <2>2, BytesAppend, AppendFacts
  <2> QED
    BY <1>5, <1>8, <1>9, <2>1, <2>3
<1>11. /\ content'[f] = c /\ plain'[f] = p /\ attr' = [attr EXCEPT ![f] = attr[f]]
       /\ attr[f] \in SUBSET Attr /\ c \in Seq(Word) /\ p \in Seq(Word)
  BY <1>3, <1>4, <1>6, <1>7, <1>8, <1>10 DEF Bytes
<1>12. KeysOK' /\ \A g, j : HasKey(g, j)' <=> HasKey(g, j)
  BY <1>3, KeysSame DEF IInv
<1>13. RecoverAt(f)'
  <2>1. SUFFICES ASSUME f \notin spoiled'
                 PROVE  /\ "encrypted" \notin attr'[f] => c = p
                        /\ "encrypted" \in attr'[f] => c = Append(p, k) /\ HasKey(f, k)'
    BY <1>11 DEF RecoverAt
  <2>2. content[f] = seen /\ attr[f] = flags /\ attr'[f] = flags
    BY <1>3, <2>1
  <2> QED
    BY <1>2, <1>5, <1>9, <1>12, <2>2
<1>14. /\ Types' /\ KeysOK' /\ \A g \in File : FileOK(g)'
       /\ \A g \in File : content[g] # Absent => content'[g] # Absent
  <2>1. spoiled' \subseteq File /\ spoiled \ {f} \subseteq spoiled'
    BY <1>3, <1>7
  <2>2. deny' \subseteq File /\ deny' \subseteq deny /\ cmd.op # "keys"
    BY <1>1, <1>3, <1>7
  <2> QED
    BY <1>3, <1>4, <1>6, <1>7, <1>10, <1>11, <1>12, <1>13, <2>1, <2>2, OneFile
<1>15. CmdOK'
  BY <1>3 DEF CmdOK, Idle
<1>16. LoadersOK'
  BY <1>3, <1>14, LoadersSame DEF IInv
<1> QED
  BY <1>14, <1>15, <1>16 DEF IInv

LEMMA StepCp ==
    ASSUME IInv, NEW src \in File, NEW dst \in File, process_cp_command(src, dst)
    PROVE  IInv'
<1>1. PICK fresh \in BOOLEAN : fresh = (~Exists(dst) \/ Size(content[dst]) > 0)
  OBVIOUS
<1>2. PICK fails \in BOOLEAN : fails = (src = dst \/ src \in deny \/ Size(content[src]) = 0)
  OBVIOUS
<1>3. /\ cmds < MAX_CMDS /\ cmds' = cmds + 1 /\ cmd.op = "idle"
      /\ cmd' = IF fails THEN Idle
                ELSE [op |-> "cp", file |-> dst, src |-> src, seen |-> content[src]]
      /\ content[src] # Absent /\ content' = [content EXCEPT ![dst] = <<EMPTY>>]
      /\ plain' = [plain EXCEPT ![dst] = <<EMPTY>>]
      /\ attr' = IF fresh THEN [attr EXCEPT ![dst] = {}] ELSE attr
      /\ loader' = IF fresh THEN Detached(dst) ELSE loader
      /\ spoiled' = IF fresh THEN spoiled \ {dst} ELSE spoiled
      /\ deny' = IF fails THEN deny \ {dst} ELSE deny \cup {src, dst}
      /\ keys' = keys /\ seals' = seals
  BY <1>1, <1>2 DEF process_cp_command, Start, Exists
<1>4. /\ content \in [File -> Seq(Word)] /\ plain \in [File -> Seq(Word)]
      /\ attr \in [File -> SUBSET Attr] /\ deny \subseteq File /\ spoiled \subseteq File
      /\ cmds' \in 0..MAX_CMDS /\ \A s \in seals : Last(s) = "hash"
  BY <1>3, SecretsAssumption DEF IInv, Types
<1>5. Bytes(<<EMPTY>>, seals) /\ <<EMPTY>> # Absent /\ <<EMPTY>> \in Seq(Word)
  BY Marks, BytesOne
<1>6. PICK a \in SUBSET Attr : a = IF fresh THEN {} ELSE attr[dst]
  BY <1>4
<1>7. /\ attr' = [attr EXCEPT ![dst] = a] /\ attr'[dst] = a
      /\ content'[dst] = <<EMPTY>> /\ plain'[dst] = <<EMPTY>>
  BY <1>3, <1>4, <1>6
<1>8. dst \notin spoiled' => "encrypted" \notin a
  <2>1. SUFFICES ASSUME ~fresh, dst \notin spoiled, "encrypted" \in attr[dst] PROVE FALSE
    BY <1>3, <1>6
  <2>2. FileOK(dst) /\ Exists(dst)
    BY <1>1, <2>1 DEF IInv
  <2>3. PICK k \in Key : content[dst] = Append(plain[dst], k)
    BY <2>1, <2>2 DEF FileOK, RecoverAt
  <2>4. Size(content[dst]) > 0
    BY <1>4, <2>3, SizeOfEncrypted
  <2> QED
    BY <1>1, <2>1, <2>4
<1>9. RecoverAt(dst)'
  BY <1>7, <1>8 DEF RecoverAt
<1>10. KeysOK' /\ \A g, j : HasKey(g, j)' <=> HasKey(g, j)
  BY <1>3, KeysSame DEF IInv
<1>11. /\ Types' /\ KeysOK' /\ \A g \in File : FileOK(g)'
       /\ \A g \in File : content[g] # Absent => content'[g] # Absent
  <2>1. spoiled' \subseteq File /\ spoiled \ {dst} \subseteq spoiled'
    BY <1>3, <1>4
  <2>2. deny' \subseteq File /\ \A g \in deny' \ deny : content[g] # Absent \/ g = dst
    BY <1>3, <1>4
  <2>3. cmd.op # "keys"
    BY <1>3
  <2> QED
    BY <1>3, <1>4, <1>5, <1>7, <1>9, <1>10, <2>1, <2>2, <2>3, OneFile
<1>12. CmdOK'
  <2>1. CASE fails
    BY <1>3, <2>1 DEF CmdOK, Idle
  <2>2. CASE ~fails
    <3>1. cmd' = [op |-> "cp", file |-> dst, src |-> src, seen |-> content[src]]
      BY <1>3, <2>2
    <3>2. cmd'.op = "cp" /\ cmd'.file = dst /\ cmd'.seen = content[src]
      BY <3>1
    <3>3. Bytes(content[src], seals')
      BY <1>3, OfFile
    <3> QED
      BY <1>3, <1>5, <1>7, <3>2, <3>3 DEF CmdOK, Exists
  <2> QED
    BY <2>1, <2>2
<1>13. LoadersOK'
  <2>1. CASE fresh
    BY <1>3, <1>11, <2>1, LoadersDetached DEF IInv
  <2>2. CASE ~fresh
    BY <1>3, <1>11, <2>2, LoadersSame DEF IInv
  <2> QED
    BY <2>1, <2>2
<1> QED
  BY <1>11, <1>12, <1>13 DEF IInv

LEMMA StepCpWrite == ASSUME IInv, cp_write PROVE IInv'
<1>1. cmd.op = "cp" /\ CmdOK
  BY DEF cp_write, IInv
<1>2. PICK f \in File, seen \in Seq(Word) :
         /\ f = cmd.file /\ seen = cmd.seen /\ Bytes(seen, seals) /\ seen # Absent
  BY <1>1 DEF CmdOK, Bytes
<1>3. PICK c : c = IF content[f] = <<EMPTY>> THEN seen ELSE Junk
  OBVIOUS
<1>4. /\ cmd' = Idle /\ content' = [content EXCEPT ![f] = c]
      /\ plain' = [plain EXCEPT ![f] = seen]
      /\ spoiled' = IF content[f] # <<EMPTY>> \/ "encrypted" \in attr[f]
                    THEN spoiled \cup {f} ELSE spoiled
      /\ deny' = deny \ {f, cmd.src} /\ attr' = attr /\ keys' = keys /\ loader' = loader
      /\ seals' = seals /\ cmds' = cmds
  BY <1>2, <1>3 DEF cp_write
<1>5. /\ content \in [File -> Seq(Word)] /\ plain \in [File -> Seq(Word)]
      /\ attr \in [File -> SUBSET Attr] /\ deny \subseteq File /\ spoiled \subseteq File
      /\ cmds \in 0..MAX_CMDS /\ \A s \in seals : Last(s) = "hash"
  BY DEF IInv, Types
<1>6. Bytes(c, seals) /\ c \in Seq(Word) /\ c # Absent
  <2>1. Bytes(Junk, seals) /\ Junk # Absent
    BY Marks, BytesOne DEF Junk
  <2> QED
    BY <1>2, <1>3, <2>1 DEF Bytes
<1>7. /\ content'[f] = c /\ plain'[f] = seen /\ attr' = [attr EXCEPT ![f] = attr[f]]
      /\ attr[f] \in SUBSET Attr
  BY <1>4, <1>5
<1>8. RecoverAt(f)'
  BY <1>3, <1>4, <1>7 DEF RecoverAt
<1>9. KeysOK' /\ \A g, j : HasKey(g, j)' <=> HasKey(g, j)
  BY <1>4, KeysSame DEF IInv
<1>10. /\ Types' /\ KeysOK' /\ \A g \in File : FileOK(g)'
       /\ \A g \in File : content[g] # Absent => content'[g] # Absent
  <2>1. spoiled' \subseteq File /\ spoiled \ {f} \subseteq spoiled'
    BY <1>4, <1>5
  <2>2. deny' \subseteq File /\ deny' \subseteq deny /\ cmd.op # "keys"
    BY <1>1, <1>4, <1>5
  <2> QED
    BY <1>2, <1>4, <1>5, <1>6, <1>7, <1>8, <1>9, <2>1, <2>2, OneFile
<1>11. CmdOK'
  BY <1>4 DEF CmdOK, Idle
<1>12. LoadersOK'
  BY <1>4, <1>10, LoadersSame DEF IInv
<1> QED
  BY <1>10, <1>11, <1>12 DEF IInv

\* The command that is under way when a loader changes the bytes or attributes of a file.
LEMMA CommandSame ==
    ASSUME IInv, cmd' = cmd, keys' = keys, seals \subseteq seals', spoiled \subseteq spoiled',
           \A g \in File : content[g] # Absent => content'[g] # Absent,
           \A g \in File : g \notin spoiled' /\ "encrypted" \in attr[g] =>
               /\ content'[g] = content[g] /\ plain'[g] = plain[g] /\ "encrypted" \in attr'[g]
    PROVE  CmdOK'
<1>1. CmdOK /\ \A g, j : HasKey(g, j)' <=> HasKey(g, j)
  BY KeysSame DEF IInv
<1>2. cmd.op # "idle" => /\ cmd.file \in File /\ content'[cmd.file] # Absent
                         /\ Bytes(cmd.seen, seals') /\ cmd.seen # Absent
  BY <1>1, BytesMono DEF CmdOK, Exists
<1>3. cmd.op = "keys" /\ cmd.file \notin spoiled' =>
          /\ content'[cmd.file] = Append(plain'[cmd.file], cmd.key)
          /\ "encrypted" \in attr'[cmd.file]
  BY <1>1, <1>2 DEF CmdOK
<1> QED
  BY <1>1, <1>2, <1>3 DEF CmdOK, Exists

LEMMA StepAppendWrite ==
    ASSUME IInv, NEW l \in Loader, append_write(l)
    PROVE  IInv'
<1>1. PICK f : f = loader[l].file
  OBVIOUS
<1>2. loader[l].pc = "write"
  BY DEF append_write, At
<1>3. /\ f \in File /\ LoaderOK(loader[l], content, seals) /\ Bytes(content[f], seals)
      /\ attr[f] \in SUBSET Attr
  BY <1>1, <1>2, OfLoader
<1>4. PICK p : p = Append(content[f], "hash")
  OBVIOUS
<1>5. PICK good \in BOOLEAN : good = (loader[l].hash = content[f])
  OBVIOUS
<1>6. PICK c : c = IF good THEN p ELSE Junk
  OBVIOUS
<1> DEFINE r == [pc |-> "flag", file |-> f, flags |-> attr[f]]
<1>7. /\ loader' = [loader EXCEPT ![l] = r] /\ content' = [content EXCEPT ![f] = c]
      /\ plain' = [plain EXCEPT ![f] = p]
      /\ seals' = IF good THEN seals \cup {p} ELSE seals
      /\ spoiled' = IF good /\ "encrypted" \notin attr[f] THEN spoiled ELSE spoiled \cup {f}
      /\ attr' = attr /\ deny' = deny /\ keys' = keys /\ cmd' = cmd /\ cmds' = cmds
  BY <1>1, <1>4, <1>5, <1>6 DEF append_write, Goto
<1>8. /\ content \in [File -> Seq(Word)] /\ plain \in [File -> Seq(Word)]
      /\ attr \in [File -> SUBSET Attr] /\ deny \subseteq File /\ spoiled \subseteq File
      /\ cmds \in 0..MAX_CMDS /\ \A s \in seals : Last(s) = "hash"
  BY DEF IInv, Types
<1>9. p \in Seq(Word) /\ p # Absent /\ Last(p) = "hash"
  <2>1. content[f] \in Seq(Word) /\ "hash" \in Word
    BY <1>3, Marks DEF Bytes
  <2> QED
    BY <1>4, <2>1, AppendFacts, AppendFront
<1>10. seals \subseteq seals' /\ (good => p \in seals') /\ \A s \in seals' : Last(s) = "hash"
  BY <1>7, <1>8, <1>9
<1>11. Bytes(c, seals') /\ c \in Seq(Word) /\ c # Absent
  <2>1. Bytes(Junk, seals') /\ Junk # Absent
    BY Marks, BytesOne DEF Junk
  <2>2. Bytes(content[f], seals') /\ "hash" \in Word
    BY <1>3, <1>10, BytesMono, Marks
  <2>3. good => Bytes(p, seals')
    BY <1>4, <1>10, <2>2, BytesAppend
  <2> QED
    BY <1>6, <1>9, <2>1, <2>3 DEF Bytes
<1>12. /\ content'[f] = c /\ plain'[f] = p /\ attr' = [attr EXCEPT ![f] = attr[f]]
       /\ \A g \in File : g # f => content'[g] = content[g] /\ plain'[g] = plain[g]
  BY <1>3, <1>7, <1>8
<1>13. RecoverAt(f)'
  BY <1>6, <1>7, <1>12 DEF RecoverAt
<1>14. KeysOK' /\ \A g, j : HasKey(g, j)' <=> HasKey(g, j)
  BY <1>7, KeysSame DEF IInv
<1>15. /\ Types' /\ KeysOK' /\ \A g \in File : FileOK(g)'
       /\ \A g \in File : content[g] # Absent => content'[g] # Absent
  <2>1. spoiled' \subseteq File /\ spoiled \ {f} \subseteq spoiled'
    BY <1>3, <1>7, <1>8
  <2>2. deny' \subseteq File /\ deny' \subseteq deny /\ cmds' \in 0..MAX_CMDS
    BY <1>7, <1>8
  <2> HIDE DEF r
  <2> QED
    BY <1>3, <1>7, <1>9, <1>10, <1>11, <1>12, <1>13, <1>14, <2>1, <2>2, OneFile
<1>16. CmdOK'
  <2>1. \A g \in File : g \notin spoiled' /\ "encrypted" \in attr[g] => g # f
    BY <1>7
  <2>2. spoiled \subseteq spoiled'
    BY <1>7
  <2> HIDE DEF r
  <2> QED
    BY <1>7, <1>10, <1>12, <1>15, <2>1, <2>2, CommandSame
<1>17. LoadersOK'
  <2>1. LoaderOK(r, content', seals')
    BY <1>3, <1>11, <1>12 DEF LoaderOK
  <2> HIDE DEF r
  <2> QED
    BY <1>7, <1>10, <1>15, <2>1, LoadersStep DEF IInv
<1> QED
  BY <1>15, <1>16, <1>17 DEF IInv

LEMMA StepAppendFlag ==
    ASSUME IInv, NEW l \in Loader, append_flag(l)
    PROVE  IInv'
<1>1. PICK f : f = loader[l].file
  OBVIOUS
<1>2. loader[l].pc = "flag"
  BY DEF append_flag, At
<1>3. /\ f \in File /\ LoaderOK(loader[l], content, seals) /\ Bytes(content[f], seals)
  BY <1>1, <1>2, OfLoader
<1>4. PICK flags \in SUBSET Attr : flags = loader[l].flags
  BY <1>2, <1>3 DEF LoaderOK
<1>5. content[f] # Absent
  BY <1>1, <1>2, <1>3 DEF LoaderOK
<1> DEFINE r == [pc |-> "load", file |-> f, verdict |-> "appended", seen |-> content[f]]
<1>6. /\ loader' = [loader EXCEPT ![l] = r] /\ attr' = [attr EXCEPT ![f] = flags \cup {"hashed"}]
      /\ deny' = deny \ {f}
      /\ spoiled' = IF attr[f] # flags THEN spoiled \cup {f} ELSE spoiled
      /\ content' = content /\ keys' = keys /\ cmd' = cmd /\ plain' = plain /\ seals' = seals
      /\ cmds' = cmds
  BY <1>1, <1>4 DEF append_flag, Goto
<1>7. /\ content \in [File -> Seq(Word)] /\ plain \in [File -> Seq(Word)]
      /\ attr \in [File -> SUBSET Attr] /\ deny \subseteq File /\ spoiled \subseteq File
      /\ cmds \in 0..MAX_CMDS /\ \A s \in seals : Last(s) = "hash"
  BY DEF IInv, Types
<1>8. /\ content' = [content EXCEPT ![f] = content[f]] /\ plain' = [plain EXCEPT ![f] = plain[f]]
      /\ attr'[f] = flags \cup {"hashed"} /\ content[f] \in Seq(Word) /\ plain[f] \in Seq(Word)
      /\ \A g \in File : g # f => attr'[g] = attr[g]
  BY <1>3, <1>6, <1>7
<1>9. "encrypted" \in attr'[f] <=> "encrypted" \in flags
  BY <1>8
<1>10. KeysOK' /\ \A g, j : HasKey(g, j)' <=> HasKey(g, j)
  BY <1>6, KeysSame DEF IInv
<1>11. RecoverAt(f)'
  <2>1. FileOK(f)
    BY <1>3 DEF IInv
  <2>2. f \notin spoiled' => f \notin spoiled /\ attr[f] = flags
    BY <1>6
  <2>3. f \notin spoiled' =>
           /\ "encrypted" \notin attr'[f] => content[f] = plain[f]
           /\ "encrypted" \in attr'[f] =>
                 \E k \in Key : /\ content[f] = Append(plain[f], k)
                                /\ \/ HasKey(f, k)
                                   \/ cmd.op = "keys" /\ cmd.file = f /\ cmd.key = k
    BY <1>5, <1>9, <2>1, <2>2 DEF FileOK, RecoverAt, Exists
  <2> HIDE DEF r
  <2> QED
    BY <1>6, <1>10, <2>3 DEF RecoverAt
<1>12. /\ Types' /\ KeysOK' /\ \A g \in File : FileOK(g)'
       /\ \A g \in File : content[g] # Absent => content'[g] # Absent
  <2>1. spoiled' \subseteq File /\ spoiled \ {f} \subseteq spoiled'
    BY <1>3, <1>6, <1>7
  <2>2. deny' \subseteq File /\ deny' \subseteq deny /\ cmds' \in 0..MAX_CMDS
    BY <1>6, <1>7
  <2>3. flags \cup {"hashed"} \in SUBSET Attr
    BY DEF Attr
  <2> HIDE DEF r
  <2> QED
    BY <1>3, <1>5, <1>6, <1>7, <1>8, <1>10, <1>11, <2>1, <2>2, <2>3, OneFile
<1>13. CmdOK'
  <2>1. ASSUME NEW g \in File, g \notin spoiled', "encrypted" \in attr[g]
        PROVE  "encrypted" \in attr'[g]
    BY <1>6, <1>8, <1>9, <2>1
  <2>2. spoiled \subseteq spoiled'
    BY <1>6
  <2> HIDE DEF r
  <2> QED
    BY <1>6, <2>1, <2>2, CommandSame
<1>14. LoadersOK'
  <2>1. LoaderOK(r, content', seals')
    BY <1>3 DEF LoaderOK
  <2> HIDE DEF r
  <2> QED
    BY <1>6, <2>1, LoadersStep DEF IInv
<1> QED
  BY <1>12, <1>13, <1>14 DEF IInv

----------------------------------------------------------------------------
(* The theorems.                                                           *)

LEMMA Initially == Init => IInv
<1> SUFFICES ASSUME Init PROVE IInv
  OBVIOUS
<1>1. /\ plain = content /\ attr = [f \in File |-> {}] /\ deny = {} /\ keys = <<>>
      /\ cmd = Idle /\ loader = [l \in Loader |-> Resting]
      /\ seals = {} /\ spoiled = {} /\ cmds = 0
  BY DEF Init
<1>2. ASSUME NEW f \in File PROVE Bytes(content[f], seals)
  <2>1. content[f] = Absent \/ content[f] = <<"long">>
    BY DEF Init
  <2>2. Bytes(Absent, seals) /\ Bytes(<<"long">>, seals)
    BY Marks, BytesNone, BytesOne
  <2> QED
    BY <2>1, <2>2
<1>3. Types
  <2>1. content \in [File -> Seq(Word)]
    <3>1. content \in [File -> {Absent, <<"long">>}]
      BY DEF Init
    <3> QED
      BY <1>2, <3>1 DEF Bytes
  <2> QED
    BY <1>1, <2>1, SecretsAssumption DEF Types
<1>4. KeysOK
  BY <1>1 DEF KeysOK
<1>5. ASSUME NEW f \in File PROVE FileOK(f)
  BY <1>1, <1>2 DEF FileOK, RecoverAt, Bytes
<1>6. CmdOK
  BY <1>1 DEF CmdOK, Idle
<1>7. LoadersOK
  <2>1. LoaderOK(Resting, content, seals)
    BY DEF LoaderOK, Resting
  <2> QED
    BY <1>1, <2>1 DEF LoadersOK
<1> QED
  BY <1>3, <1>4, <1>5, <1>6, <1>7 DEF IInv

LEMMA Stuttering == ASSUME IInv, UNCHANGED vars PROVE IInv'
<1>1. /\ content' = content /\ attr' = attr /\ keys' = keys /\ loader' = loader /\ deny' = deny
      /\ plain' = plain /\ seals' = seals /\ spoiled' = spoiled /\ cmd' = cmd /\ cmds' = cmds
  BY DEF vars, files, history
<1>2. KeysOK' /\ \A f, k : HasKey(f, k)' <=> HasKey(f, k)
  BY <1>1, KeysSame DEF IInv
<1>3. ASSUME NEW f \in File PROVE FileOK(f)'
  <2>1. FileOK(f) /\ (content[f] = Absent => f \notin deny')
    BY <1>1 DEF IInv, FileOK
  <2> QED
    BY <1>1, <1>2, <2>1, FileSame
<1>4. CmdOK'
  BY <1>1, CommandSame
<1>5. LoadersOK'
  BY <1>1, LoadersSame DEF IInv
<1>6. Types'
  BY <1>1 DEF IInv, Types
<1> QED
  BY <1>2, <1>3, <1>4, <1>5, <1>6 DEF IInv

LEMMA Inductive == IInv /\ [Next]_vars => IInv'
<1> SUFFICES ASSUME IInv, [Next]_vars PROVE IInv'
  OBVIOUS
<1>1. ASSUME NEW f \in File, process_touch_command(f) \/ process_rm_command(f)
                             \/ process_sha_command(f)
      PROVE  IInv'
  BY <1>1, StepTouch, StepRm, StepSha
<1>2. ASSUME NEW f \in File, NEW k \in Key,
             process_enc_command(f, k) \/ process_dec_command(f, k) \/ editor_main(f, k)
      PROVE  IInv'
  BY <1>2, StepEnc, StepDec, StepEdit
<1>3. ASSUME NEW f \in File, NEW dst \in File, process_cp_command(f, dst) PROVE IInv'
  BY <1>3, StepCp
<1>4. CASE enc_write \/ enc_keys \/ dec_write \/ editor_save \/ editor_quit \/ cp_write
  BY <1>4, StepEncWrite, StepEncKeys, StepDecWrite, StepSave, StepQuit, StepCpWrite
<1>5. CASE Command
  BY <1>1, <1>2, <1>3, <1>4, <1>5 DEF Command
<1>6. ASSUME NEW l \in Loader, Load(l) PROVE IInv'
  BY <1>6, StepProgram, StepVerify, StepVerifySha, StepAppendSha, StepAppendOpen,
     StepAppendWrite, StepAppendFlag, StepEnd DEF Load
<1>7. CASE UNCHANGED vars
  BY <1>7, Stuttering
<1> QED
  BY <1>5, <1>6, <1>7 DEF Next

LEMMA Always == Spec => []IInv
BY Initially, Inductive, PTL DEF Spec

\* Files, attributes, the records of /keys, the command and the loaders keep their types, for any
\* number of files, keys, texts and loaders: among them, that a file that does not exist has neither
\* attributes nor the mark of a writer, and that enc never makes a second record of a path.
THEOREM SecretsTypeCorrect == Spec => []TypeOK
<1>1. IInv => TypeOK
  <2> SUFFICES ASSUME IInv PROVE TypeOK
    OBVIOUS
  <2>1. /\ DOMAIN content = File /\ attr \in [File -> SUBSET Attr]
        /\ deny \subseteq File /\ spoiled \subseteq File /\ cmds \in 0..MAX_CMDS
    BY DEF IInv, Types
  <2>2. \A f \in File : content[f] = Absent => attr[f] = {} /\ f \notin deny
    BY DEF IInv, FileOK
  <2>3. DOMAIN keys = 1..Len(keys) /\ \A i \in 1..Len(keys) : keys[i] \in File \X Key
    <3>1. keys \in Seq(File \X Key)
      BY DEF IInv, KeysOK
    <3> QED
      BY <3>1, LenProperties, ElementOfSeq
  <2>4. \A i, j \in DOMAIN keys : keys[i][1] = keys[j][1] => i = j
    BY <2>3 DEF IInv, KeysOK
  <2>5. cmd.op \in {"idle", "enc", "keys", "dec", "edit", "cp"}
    BY DEF IInv, CmdOK
  <2>6. \A l \in Loader : loader[l].pc \in {"idle", "verify", "sha", "hash", "append",
                                            "write", "flag", "refused", "load"}
    BY DEF IInv, LoadersOK, LoaderOK
  <2> QED
    BY <2>1, <2>2, <2>3, <2>4, <2>5, <2>6 DEF TypeOK
<1> QED
  BY <1>1, Always, PTL

\* A file that no lost update spoiled holds what its user put into it, encrypted under the key that
\* /keys has for it: whatever commands were given and whatever loaders ran in between.
THEOREM ContentsRecoverable == Spec => []Recoverable
<1>1. IInv => Recoverable
  <2> SUFFICES ASSUME IInv, NEW f \in File, Exists(f), f \notin spoiled
               PROVE  CASE "encrypted" \notin attr[f] -> content[f] = plain[f]
                        [] "encrypted" \in attr[f] ->
                              \E k \in Key : /\ content[f] = Append(plain[f], k)
                                             /\ \/ HasKey(f, k)
                                                \/ cmd.op = "keys" /\ cmd.file = f /\ cmd.key = k
    BY DEF Recoverable
  <2>1. RecoverAt(f)
    BY DEF IInv, FileOK
  <2> QED
    BY <2>1 DEF RecoverAt
<1> QED
  BY <1>1, Always, PTL

\* What a loader runs as verified carries a hash that a loader appended, it refuses no such bytes
\* that stayed as they were, and runs unchecked only what is too short for a hash.
THEOREM HashesTell == Spec => []HashTells
<1>1. IInv => HashTells
  <2> SUFFICES ASSUME IInv, NEW l \in Loader
               PROVE  /\ At(l, "load") /\ loader[l].verdict = "right" =>
                            {loader[l].seen, Append(loader[l].seen, "hash")} \cap seals # {}
                      /\ At(l, "load") /\ loader[l].verdict = "fault" =>
                            Size(loader[l].seen) <= HASH_SIZE
                      /\ At(l, "refused") /\ loader[l].seen = loader[l].first
                            /\ "hashed" \in loader[l].flags => loader[l].seen \notin seals
    BY DEF HashTells
  <2>1. LoaderOK(loader[l], content, seals) /\ \A s \in seals : Last(s) = "hash"
    BY DEF IInv, LoadersOK, Types
  <2> QED
    BY <2>1 DEF LoaderOK, At
<1> QED
  BY <1>1, Always, PTL
=============================================================================
