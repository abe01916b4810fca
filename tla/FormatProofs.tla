---------------------------- MODULE FormatProofs ----------------------------
(***************************************************************************)
(* What is recorded of a file, whatever its format, is what was said: the  *)
(* reader of the Mac's database, and the invariant of Formats.             *)
(***************************************************************************)
EXTENDS Intake, ReaderProofs

-----------------------------------------------------------------------------
(* The Mac's database: its chats *)

\* What is said, when a file is made of it: in order of time, and what a
\* reaction is about before it.
WellTold ==
    /\ told \in Seq(Utterance)
    /\ \A i \in DOMAIN told : Sayable(told[i])
    /\ \A i, j \in DOMAIN told : i < j => told[i].at <= told[j].at
    /\ \A i \in DOMAIN told : told[i].kind = "reaction" =>
          \E j \in 1 .. (i - 1) :
              told[j].kind = "text" /\ told[j].with = told[i].with /\ told[j].words = told[i].words

ByNumber(p) == [ident |-> p, handles |-> <<p>>]
ByMail(p) == [ident |-> p, handles |-> <<Mail(p)>>]
OfGroup(with) == [ident |-> <<"group">>, handles |-> SetToSeq(with)]

Handles == Others \cup {Mail(p) : p \in Others}
ChatRecords == [ident : Others \cup {<<"group">>}, handles : Seq(Handles)]

\* A chat by mail comes after one by number.
Chats(chats) ==
    /\ chats \in Seq(ChatRecords)
    /\ \A c \in DOMAIN chats :
          \/ \E p \in Others : {p} \in Withs /\ chats[c] = ByNumber(p)
          \/ \E p \in Others, b \in 1 .. (c - 1) : {p} \in Withs /\ chats[c] = ByMail(p) /\ chats[b] = ByNumber(p)
          \/ \E with \in Withs : Cardinality(with) > 1 /\ chats[c] = OfGroup(with)

LEMMA WithsAre ==
    ASSUME WellTold
    PROVE  /\ IsFiniteSet(Withs)
           /\ \A with \in Withs : with \in SUBSET Others /\ IsFiniteSet(with) /\ Cardinality(with) \in Nat \ {0}
           /\ \A with \in Withs : Cardinality(with) > 1 \/ \E p \in Others : with = {p}
           /\ \A p : Cardinality({p}) = 1
<1>1. IsFiniteSet(Withs)
  <2>1. PICK n \in Nat : DOMAIN told = 1 .. n
    BY DEF WellTold
  <2>2. IsFiniteSet(1 .. n)
    BY FS_Interval
  <2>3. PICK f : f = [i \in 1 .. n |-> told[i].with]
    OBVIOUS
  <2>4. IsFiniteSet({f[i] : i \in 1 .. n})
    BY <2>2, <2>3, FiniteImage
  <2> QED BY <2>1, <2>3, <2>4 DEF Withs
<1>2. ASSUME NEW with \in Withs
      PROVE  /\ with \in SUBSET Others /\ IsFiniteSet(with) /\ Cardinality(with) \in Nat \ {0}
             /\ Cardinality(with) > 1 \/ \E p \in Others : with = {p}
  <2>1. PICK i \in DOMAIN told : with = told[i].with
    BY <1>2 DEF Withs
  <2>2. with \in SUBSET Others /\ IsFiniteSet(with) /\ with # {}
    BY <2>1 DEF WellTold, Sayable, Utterance
  <2>3. Cardinality(with) \in Nat \ {0}
    BY <2>2, FS_CardinalityType, FS_EmptySet
  <2>4. Cardinality(with) = 1 => \E p \in Others : with = {p}
    BY <2>2, FS_Singleton
  <2> QED BY <2>2, <2>3, <2>4
<1>3. \A p : Cardinality({p}) = 1
  BY FS_Singleton
<1> QED BY <1>1, <1>2, <1>3

LEMMA ChatsJoined ==
    ASSUME NEW a, NEW b, Chats(a), Chats(b)
    PROVE  Chats(a \o b)
<1>1. a \in Seq(ChatRecords) /\ b \in Seq(ChatRecords)
  BY DEF Chats
<1>2. PICK m \in Nat, n \in Nat : m = Len(a) /\ n = Len(b) /\ DOMAIN a = 1 .. m /\ DOMAIN b = 1 .. n
  BY <1>1
<1>3. PICK s : s = a \o b
  OBVIOUS
<1>4. /\ s \in Seq(ChatRecords) /\ DOMAIN s = 1 .. (m + n)
      /\ \A c \in 1 .. m : s[c] = a[c]
      /\ \A c \in 1 .. n : s[m + c] = b[c]
  <2>1. /\ s \in Seq(ChatRecords) /\ Len(s) = m + n
        /\ \A c \in 1 .. m + n : s[c] = IF c <= m THEN a[c] ELSE b[c - m]
    BY <1>1, <1>2, <1>3, ConcatProperties
  <2>2. ASSUME NEW c \in 1 .. n PROVE s[m + c] = b[c]
    <3>1. m + c \in 1 .. m + n /\ ~(m + c <= m) /\ (m + c) - m = c
      BY <1>2
    <3> QED BY <2>1, <3>1
  <2>3. DOMAIN s = 1 .. (m + n)
    BY <2>1
  <2>4. \A c \in 1 .. m : s[c] = a[c]
    <3>1. TAKE c \in 1 .. m
    <3>2. c \in 1 .. m + n /\ c <= m
      BY <1>2
    <3> QED BY <2>1, <3>2
  <2> QED BY <2>1, <2>2, <2>3, <2>4
<1>5. \A c \in 1 .. (m + n) : c \in 1 .. m \/ \E k \in 1 .. n : c = m + k
  <2>1. TAKE c \in 1 .. (m + n)
  <2>2. CASE c <= m
    BY <2>2
  <2>3. CASE c > m
    <3>1. c - m \in 1 .. n /\ c = m + (c - m)
      BY <1>2, <2>3
    <3> QED BY <3>1
  <2> QED BY <1>2, <2>2, <2>3
<1>6. ASSUME NEW c \in DOMAIN s
      PROVE  \/ \E p \in Others : {p} \in Withs /\ s[c] = ByNumber(p)
             \/ \E p \in Others, d \in 1 .. (c - 1) : {p} \in Withs /\ s[c] = ByMail(p) /\ s[d] = ByNumber(p)
             \/ \E with \in Withs : Cardinality(with) > 1 /\ s[c] = OfGroup(with)
  <2>1. CASE c \in 1 .. m
    <3>1. s[c] = a[c] /\ \A d \in 1 .. (c - 1) : s[d] = a[d]
      BY <1>2, <1>4, <2>1
    <3>2. \/ \E p \in Others : {p} \in Withs /\ a[c] = ByNumber(p)
          \/ \E p \in Others, d \in 1 .. (c - 1) : {p} \in Withs /\ a[c] = ByMail(p) /\ a[d] = ByNumber(p)
          \/ \E with \in Withs : Cardinality(with) > 1 /\ a[c] = OfGroup(with)
      BY <1>2, <2>1 DEF Chats
    <3> QED BY <3>1, <3>2
  <2>2. CASE \E k \in 1 .. n : c = m + k
    <3>1. PICK k \in 1 .. n : c = m + k
      BY <2>2
    <3>2. s[c] = b[k]
      BY <1>4, <3>1
    <3>3. ASSUME NEW d \in 1 .. (k - 1) PROVE m + d \in 1 .. (c - 1) /\ s[m + d] = b[d]
      <4>1. d \in 1 .. n /\ m + d \in 1 .. (c - 1)
        BY <1>2, <3>1, <3>3
      <4> QED BY <1>4, <4>1
    <3>4. \/ \E p \in Others : {p} \in Withs /\ b[k] = ByNumber(p)
          \/ \E p \in Others, d \in 1 .. (k - 1) : {p} \in Withs /\ b[k] = ByMail(p) /\ b[d] = ByNumber(p)
          \/ \E with \in Withs : Cardinality(with) > 1 /\ b[k] = OfGroup(with)
      BY <1>2, <3>1 DEF Chats
    <3> QED BY <3>2, <3>3, <3>4
  <2> QED BY <1>4, <1>5, <2>1, <2>2
<1>7. Chats(s)
  BY <1>4, <1>6 DEF Chats
<1> QED BY <1>3, <1>7

Groups == {w \in Withs : Cardinality(w) > 1}

LEMMA GroupChats ==
    ASSUME WellTold, NEW rest,
           rest = [i \in 1 .. Cardinality(Groups) |->
                      [ident |-> <<"group">>, handles |-> SetToSeq(SetToSeq(Groups)[i])]]
    PROVE  Chats(rest) /\ \A w \in Groups : \E c \in DOMAIN rest : rest[c] = OfGroup(w)
<1>1. IsFiniteSet(Groups)
  BY WithsAre, FS_Subset DEF Groups
<1>2. PICK n \in Nat, s \in Seq(Groups) :
         n = Cardinality(Groups) /\ s = SetToSeq(Groups) /\ Len(s) = n /\ {s[i] : i \in 1 .. n} = Groups
  BY ZenonT(40), <1>1, SetToSeqIs
<1>3. DOMAIN rest = 1 .. n /\ \A i \in 1 .. n : s[i] \in Groups /\ rest[i] = OfGroup(s[i])
  BY <1>2 DEF OfGroup
<1>4. \A w \in Groups : w \in Withs /\ Cardinality(w) > 1 /\ OfGroup(w) \in ChatRecords
  <2>1. TAKE w \in Groups
  <2>2. w \in Withs /\ Cardinality(w) > 1 /\ w \in SUBSET Others /\ IsFiniteSet(w)
    BY WithsAre DEF Groups
  <2>3. SetToSeq(w) \in Seq(w)
    BY <2>2, SetToSeqIs
  <2>4. w \subseteq Handles
    BY <2>2 DEF Handles
  <2>5. SetToSeq(w) \in Seq(Handles)
    BY <2>3, <2>4, SeqMonotonic
  <2> QED BY <2>2, <2>5 DEF OfGroup, ChatRecords
<1>5. rest \in Seq(ChatRecords)
  <2>1. \A i \in 1 .. n : rest[i] \in ChatRecords
    BY <1>3, <1>4
  <2>2. rest = [i \in 1 .. n |-> rest[i]]
    BY <1>2
  <2> QED BY <1>2, <2>1, <2>2
<1>6. Chats(rest)
  BY <1>3, <1>4, <1>5 DEF Chats
<1>7. \A w \in Groups : \E c \in DOMAIN rest : rest[c] = OfGroup(w)
  BY <1>2, <1>3
<1> QED BY <1>6, <1>7

\* Two chats with everyone there is a conversation with.
LEMMA ChatsOfOnes ==
    ASSUME WellTold, NEW ones, ones = SetToSeq(Withs \ Groups), NEW twice,
           twice = FlattenSeq([i \in DOMAIN ones |->
                      <<[ident |-> Ident(ones[i]), handles |-> <<Ident(ones[i])>>],
                        [ident |-> Ident(ones[i]), handles |-> <<Mail(Ident(ones[i]))>>]>>])
    PROVE  Chats(twice) /\ \A p : {p} \in Withs => \E c \in DOMAIN twice : twice[c] = ByNumber(p)
<1>1. IsFiniteSet(Withs \ Groups)
  BY WithsAre, FS_Subset
<1>2. PICK n \in Nat : /\ Len(ones) = n /\ ones \in Seq(Withs \ Groups) /\ DOMAIN ones = 1 .. n
                       /\ {ones[i] : i \in 1 .. n} = Withs \ Groups
  <2>1. PICK S : S = Withs \ Groups
    OBVIOUS
  <2>2. /\ Cardinality(S) \in Nat /\ ones \in Seq(S) /\ Len(ones) = Cardinality(S)
        /\ {ones[i] : i \in 1 .. Cardinality(S)} = S
    <3>1. IsFiniteSet(S) /\ ones = SetToSeq(S)
      BY <1>1, <2>1
    <3>2. PICK seq : seq = SetToSeq(S)
      OBVIOUS
    <3>3. /\ Cardinality(S) \in Nat /\ seq \in Seq(S) /\ Len(seq) = Cardinality(S)
          /\ {seq[i] : i \in 1 .. Cardinality(S)} = S
      BY ONLY <3>1, <3>2, SetToSeqIs
    <3> QED BY <3>1, <3>2, <3>3
  <2>3. DOMAIN ones = 1 .. Cardinality(S)
    BY <2>2
  <2> QED BY <2>1, <2>2, <2>3
<1>3. PICK who : who = [i \in 1 .. n |-> Ident(ones[i])]
  OBVIOUS
<1>4. \A i \in 1 .. n : who[i] \in Others /\ ones[i] = {who[i]} /\ {who[i]} \in Withs
  <2>1. TAKE i \in 1 .. n
  <2>2. ones[i] \in Withs /\ ones[i] \notin Groups
    BY <1>2
  <2>3. PICK p \in Others : ones[i] = {p}
    BY <2>2, WithsAre DEF Groups
  <2>4. Ident(ones[i]) = p
    <3>1. Cardinality({p}) = 1
      BY FS_Singleton
    <3>2. (CHOOSE q \in {p} : TRUE) = p
      OBVIOUS
    <3>3. ~(Cardinality({p}) > 1)
      BY <3>1
    <3> QED BY <2>3, <3>2, <3>3 DEF Ident
  <2> QED BY <1>3, <2>2, <2>3, <2>4
<1>5. PICK pairs : pairs = [i \in 1 .. n |-> <<ByNumber(who[i]), ByMail(who[i])>>]
  OBVIOUS
<1>6. twice = FlattenSeq(pairs)
  <2>1. PICK was : was = [i \in DOMAIN ones |->
                      <<[ident |-> Ident(ones[i]), handles |-> <<Ident(ones[i])>>],
                        [ident |-> Ident(ones[i]), handles |-> <<Mail(Ident(ones[i]))>>]>>]
    OBVIOUS
  <2>2. \A i \in 1 .. n : was[i] = pairs[i]
    BY <1>2, <1>3, <1>5, <2>1 DEF ByNumber, ByMail
  <2>3. was = pairs
    BY <1>2, <1>5, <2>1, <2>2
  <2> QED BY <2>1, <2>3
<1>7. \A p \in Others : ByNumber(p) \in ChatRecords /\ ByMail(p) \in ChatRecords
  <2>1. TAKE p \in Others
  <2>2. p \in Handles /\ Mail(p) \in Handles
    BY DEF Handles
  <2>3. <<p>> \in Seq(Handles) /\ <<Mail(p)>> \in Seq(Handles)
    BY <2>2, PairIsASeq
  <2> QED BY <2>3 DEF ByNumber, ByMail, ChatRecords
<1>8. /\ pairs \in Seq(Seq(ChatRecords)) /\ Len(pairs) = n
      /\ \A i \in 1 .. n : Len(pairs[i]) = 2 /\ pairs[i][1] = ByNumber(who[i]) /\ pairs[i][2] = ByMail(who[i])
  <2>1. \A i \in 1 .. n : pairs[i] \in Seq(ChatRecords)
    <3>1. TAKE i \in 1 .. n
    <3>2. ByNumber(who[i]) \in ChatRecords /\ ByMail(who[i]) \in ChatRecords
      BY <1>4, <1>7
    <3> QED BY <1>5, <3>2, PairIsASeq
  <2>2. \A i \in 1 .. n : Len(pairs[i]) = 2 /\ pairs[i][1] = ByNumber(who[i]) /\ pairs[i][2] = ByMail(who[i])
    BY <1>5
  <2> QED BY <1>5, <2>1, <2>2
<1>9. PICK off : Offsets(pairs, off)
  BY <1>8, OffsetsExist
<1>10. twice \in Seq(ChatRecords)
  BY <1>6, <1>8, OffsetsExist
<1>11. /\ off \in [0 .. n -> Nat] /\ off[0] = 0 /\ Len(twice) = off[n]
       /\ \A i \in 1 .. n : off[i] = off[i - 1] + 2
       /\ \A i \in 1 .. n : twice[off[i - 1] + 1] = ByNumber(who[i]) /\ twice[off[i - 1] + 2] = ByMail(who[i])
  <2>1. /\ off \in [0 .. n -> Nat] /\ off[0] = 0 /\ Len(twice) = off[n]
        /\ \A i \in 1 .. n : off[i] = off[i - 1] + Len(pairs[i])
        /\ \A i \in 1 .. n : \A k \in 1 .. Len(pairs[i]) : twice[off[i - 1] + k] = pairs[i][k]
    BY <1>6, <1>8, <1>9 DEF Offsets
  <2>2. \A i \in 1 .. n : 1 \in 1 .. Len(pairs[i]) /\ 2 \in 1 .. Len(pairs[i])
    BY <1>8
  <2> QED BY <1>8, <2>1, <2>2
<1>12. \A i \in 1 .. n : off[i - 1] < off[i] /\ off[i - 1] \in Nat /\ off[i] \in Nat
  BY <1>11
<1>13. /\ \A i, j \in 0 .. n : i < j => off[i] < off[j]
       /\ \A x \in Nat : off[0] < x /\ x <= off[n] => \E i \in 1 .. n : off[i - 1] < x /\ x <= off[i]
  BY <1>11, <1>12, StrictlyGrows
<1>14. ASSUME NEW c \in DOMAIN twice
       PROVE  \/ \E p \in Others : {p} \in Withs /\ twice[c] = ByNumber(p)
              \/ \E p \in Others, b \in 1 .. (c - 1) : {p} \in Withs /\ twice[c] = ByMail(p) /\ twice[b] = ByNumber(p)
  <2>1. c \in Nat /\ off[0] < c /\ c <= off[n]
    BY <1>10, <1>11
  <2>2. PICK i \in 1 .. n : off[i - 1] < c /\ c <= off[i]
    BY <1>13, <2>1
  <2>3. off[i - 1] \in Nat /\ off[i] = off[i - 1] + 2
    BY <1>11, <1>12
  <2>4. c = off[i - 1] + 1 \/ c = off[i - 1] + 2
    BY <2>1, <2>2, <2>3
  <2>5. CASE c = off[i - 1] + 1
    BY <1>4, <1>11, <2>5
  <2>6. CASE c = off[i - 1] + 2
    <3>1. off[i - 1] + 1 \in 1 .. (c - 1)
      BY <2>3, <2>6
    <3> QED BY <1>4, <1>11, <2>6, <3>1
  <2> QED BY <2>4, <2>5, <2>6
<1>15. Chats(twice)
  BY <1>10, <1>14 DEF Chats
<1>16. ASSUME NEW p, {p} \in Withs PROVE \E c \in DOMAIN twice : twice[c] = ByNumber(p)
  <2>1. {p} \notin Groups
    <3>1. Cardinality({p}) = 1
      BY FS_Singleton
    <3> QED BY <3>1 DEF Groups
  <2>2. PICK i \in 1 .. n : ones[i] = {p}
    BY <1>2, <1>16, <2>1
  <2>3. who[i] = p
    BY <1>4, <2>2
  <2>4. twice[off[i - 1] + 1] = ByNumber(p)
    BY <1>11, <2>3
  <2>5. off[i - 1] + 1 \in DOMAIN twice
    <3>1. off[i] <= off[n] /\ off[i] \in Nat /\ off[n] \in Nat /\ off[i - 1] \in Nat
      <4>1. i = n \/ i < n
        OBVIOUS
      <4>2. off[n] \in Nat
        BY <1>11
      <4> QED BY <1>12, <1>13, <4>1, <4>2
    <3>2. off[i - 1] + 1 \in 1 .. off[n]
      BY <1>11, <3>1
    <3> QED BY <1>10, <1>11, <3>2
  <2> QED BY <2>4, <2>5
<1> QED BY <1>15, <1>16

LEMMA ChatsAre ==
    ASSUME WellTold, NEW groupFirst \in BOOLEAN, NEW chats, chats = MacChats(groupFirst)
    PROVE  /\ Chats(chats)
           /\ \A p : {p} \in Withs => \E c \in DOMAIN chats : chats[c] = ByNumber(p)
           /\ \A w \in Groups : \E c \in DOMAIN chats : chats[c] = OfGroup(w)
<1>1. PICK ones : ones = SetToSeq(Withs \ Groups)
  OBVIOUS
<1>2. PICK twice : twice = FlattenSeq([i \in DOMAIN ones |->
                      <<[ident |-> Ident(ones[i]), handles |-> <<Ident(ones[i])>>],
                        [ident |-> Ident(ones[i]), handles |-> <<Mail(Ident(ones[i]))>>]>>])
  OBVIOUS
<1>3. PICK rest : rest = [i \in 1 .. Cardinality(Groups) |->
                      [ident |-> <<"group">>, handles |-> SetToSeq(SetToSeq(Groups)[i])]]
  OBVIOUS
<1>4. chats = IF groupFirst THEN rest \o twice ELSE twice \o rest
  BY <1>1, <1>2, <1>3 DEF MacChats, Groups
<1>5. Chats(twice) /\ \A p : {p} \in Withs => \E c \in DOMAIN twice : twice[c] = ByNumber(p)
  BY <1>1, <1>2, ChatsOfOnes
<1>6. Chats(rest) /\ \A w \in Groups : \E c \in DOMAIN rest : rest[c] = OfGroup(w)
  BY <1>3, GroupChats
<1>7. Chats(chats) /\ ToSet(chats) = ToSet(twice) \cup ToSet(rest)
  <2>1. Chats(twice) /\ Chats(rest)
    BY <1>5, <1>6
  <2>2. twice \in Seq(ChatRecords) /\ rest \in Seq(ChatRecords)
    BY <2>1 DEF Chats
  <2>3. CASE groupFirst
    BY <1>4, <2>1, <2>2, <2>3, ChatsJoined, JoinedSet
  <2>4. CASE ~groupFirst
    BY <1>4, <2>1, <2>2, <2>4, ChatsJoined, JoinedSet
  <2> QED BY <2>3, <2>4
<1>8. ASSUME NEW p, {p} \in Withs PROVE \E c \in DOMAIN chats : chats[c] = ByNumber(p)
  <2>1. ByNumber(p) \in ToSet(twice)
    BY <1>5, <1>8 DEF ToSet
  <2> QED BY <1>7, <2>1 DEF ToSet
<1>9. ASSUME NEW w \in Groups PROVE \E c \in DOMAIN chats : chats[c] = OfGroup(w)
  <2>1. OfGroup(w) \in ToSet(rest)
    BY <1>6 DEF ToSet
  <2> QED BY <1>7, <2>1 DEF ToSet
<1> QED BY <1>7, <1>8, <1>9

-----------------------------------------------------------------------------
(* The Mac's database: the conversation that is chosen *)

ChatsWith(chats, k) == {c \in DOMAIN chats : chats[c].ident = k}
HandlesOf(chats, places) == FlattenSeq([i \in 1 .. Cardinality(places) |-> chats[InOrder(places)[i]].handles])

ConversationIs(chats, c, k) ==
    /\ c.ident = k /\ c.chats = ChatsWith(chats, k) /\ c.handles = HandlesOf(chats, ChatsWith(chats, k))
    /\ c.isGroup <=> \E x \in ChatsWith(chats, k) : Len(chats[x].handles) > 1

ConversationOf(db, k) ==
    [ident |-> k, chats |-> {c \in DOMAIN db.chats : KeyOf(db, c) = k},
     handles |-> FlattenSeq([i \in 1..Cardinality({c \in DOMAIN db.chats : KeyOf(db, c) = k}) |->
         db.chats[InOrder({c \in DOMAIN db.chats : KeyOf(db, c) = k})[i]].handles]),
     isGroup |-> \E x \in {c \in DOMAIN db.chats : KeyOf(db, c) = k} : Len(db.chats[x].handles) > 1]

\* Every chat is of a conversation, and every conversation has its chats.
Conversations(chats, all) ==
    \E m \in Nat :
       /\ Len(all) = m /\ DOMAIN all = 1 .. m
       /\ \A n \in 1 .. m : \E c \in DOMAIN chats : ConversationIs(chats, all[n], chats[c].ident)
       /\ \A c \in DOMAIN chats : \E n \in 1 .. m : all[n].ident = chats[c].ident

LEMMA ConversationsAre ==
    ASSUME NEW db, Chats(db.chats)
    PROVE  Conversations(db.chats, ConversationsIn(db))
<1>0. PICK all : all = ConversationsIn(db)
  OBVIOUS
<1>00. PICK chats \in Seq(ChatRecords) : chats = db.chats
  BY DEF Chats
<1>1. PICK len \in Nat : DOMAIN chats = 1 .. len
  BY <1>00
<1>2. PICK first : first = [k \in Idents(db) |-> Min(ChatsWith(chats, k))]
  OBVIOUS
<1>3. \A c \in DOMAIN chats : chats[c].ident \in Idents(db)
  BY <1>00 DEF Idents, KeyOf
<1>4. \A k \in Idents(db) : first[k] \in DOMAIN chats /\ chats[first[k]].ident = k
  <2>1. TAKE k \in Idents(db)
  <2>2. PICK c \in DOMAIN chats : chats[c].ident = k
    BY <1>00 DEF Idents, KeyOf
  <2>3. ChatsWith(chats, k) # {} /\ ChatsWith(chats, k) \in SUBSET Nat
    BY <1>1, <2>2 DEF ChatsWith
  <2>4. PICK n \in ChatsWith(chats, k) : \A m \in ChatsWith(chats, k) : n <= m
    BY <2>3, LeastNatural
  <2>5. Min(ChatsWith(chats, k)) \in ChatsWith(chats, k)
    BY <2>4 DEF Min
  <2> QED BY <1>2, <2>5 DEF ChatsWith
<1>5. PICK firsts : firsts = {first[k] : k \in Idents(db)}
  OBVIOUS
<1>6. firsts \in SUBSET (1 .. len)
  BY <1>1, <1>4, <1>5
<1>70. PICK m \in Nat : m = Cardinality(firsts)
  BY <1>6, PlacesInOrder
<1>7. PICK order \in [1 .. m -> firsts] :
         order = InOrder(firsts) /\ DOMAIN order = 1 .. m /\ \A x \in firsts : \E i \in 1 .. m : order[i] = x
  <2>1. /\ InOrder(firsts) \in [1 .. m -> firsts]
        /\ \A x \in firsts : \E i \in 1 .. m : InOrder(firsts)[i] = x
    BY <1>6, <1>70, PlacesInOrder
  <2>2. DOMAIN InOrder(firsts) = 1 .. m
    BY <2>1
  <2> QED BY <2>1, <2>2
<1>8. firsts = {Min({c \in DOMAIN db.chats : KeyOf(db, c) = k}) : k \in Idents(db)}
  <2>1. \A k \in Idents(db) : first[k] = Min({c \in DOMAIN db.chats : KeyOf(db, c) = k})
    BY <1>00, <1>2 DEF ChatsWith, KeyOf
  <2> QED BY ZenonT(40), <1>5, <2>1
<1>9. /\ DOMAIN all = 1 .. m
      /\ \A n \in 1 .. m : ConversationIs(chats, all[n], chats[order[n]].ident)
  <2>1. all = [n \in DOMAIN order |-> ConversationOf(db, KeyOf(db, order[n]))]
    <3>1. all = [n \in DOMAIN InOrder({Min({c \in DOMAIN db.chats : KeyOf(db, c) = k}) : k \in Idents(db)}) |->
              ConversationOf(db, KeyOf(db,
                  InOrder({Min({c \in DOMAIN db.chats : KeyOf(db, c) = k}) : k \in Idents(db)})[n]))]
      BY <1>0, Zenon DEF ConversationsIn, ConversationOf
    <3> QED BY <1>7, <1>8, <3>1, Zenon
  <2>2. DOMAIN all = 1 .. m
    BY <1>7, <2>1
  <2>3. ASSUME NEW n \in 1 .. m PROVE ConversationIs(chats, all[n], chats[order[n]].ident)
    <3>1. PICK k : k = chats[order[n]].ident
      OBVIOUS
    <3>2. KeyOf(db, order[n]) = k
      BY <1>00, <3>1 DEF KeyOf
    <3>3. {c \in DOMAIN db.chats : KeyOf(db, c) = k} = ChatsWith(chats, k)
      BY <1>00 DEF KeyOf, ChatsWith
    <3>4. all[n] = [ident |-> k, chats |-> ChatsWith(chats, k),
               handles |-> FlattenSeq([i \in 1..Cardinality(ChatsWith(chats, k)) |->
                   chats[InOrder(ChatsWith(chats, k))[i]].handles]),
               isGroup |-> \E x \in ChatsWith(chats, k) : Len(chats[x].handles) > 1]
      <4>1. all[n] = ConversationOf(db, k)
        BY <1>7, <2>1, <3>2
      <4> QED BY <1>00, <3>3, <4>1, Zenon DEF ConversationOf
    <3>5. PICK handles : handles = HandlesOf(chats, ChatsWith(chats, k))
      OBVIOUS
    <3>6. PICK g \in BOOLEAN : g <=> \E x \in ChatsWith(chats, k) : Len(chats[x].handles) > 1
      OBVIOUS
    <3>7. all[n] = [ident |-> k, chats |-> ChatsWith(chats, k), handles |-> handles, isGroup |-> g]
      BY <3>4, <3>5, <3>6, Zenon DEF HandlesOf
    <3>8. /\ all[n].ident = k /\ all[n].chats = ChatsWith(chats, k) /\ all[n].handles = handles
          /\ all[n].isGroup <=> g
      BY <3>7
    <3> QED BY <3>1, <3>5, <3>6, <3>8, Zenon DEF ConversationIs
  <2> QED BY <2>2, <2>3
<1>10. Len(all) = m
  <2>1. all = [n \in 1 .. m |-> all[n]]
    BY <1>0, <1>9 DEF ConversationsIn
  <2> QED BY <2>1
<1>11. \A n \in 1 .. m : \E c \in DOMAIN chats : ConversationIs(chats, all[n], chats[c].ident)
  <2>1. \A n \in 1 .. m : order[n] \in DOMAIN chats
    BY <1>1, <1>6, <1>7
  <2> QED BY <1>9, <2>1
<1>12. \A c \in DOMAIN chats : \E n \in 1 .. m : all[n].ident = chats[c].ident
  <2>1. TAKE c \in DOMAIN chats
  <2>2. PICK k \in Idents(db) : k = chats[c].ident
    BY <1>3
  <2>3. first[k] \in firsts /\ chats[first[k]].ident = k
    BY <1>4, <1>5
  <2>4. PICK n \in 1 .. m : order[n] = first[k]
    BY <1>7, <2>3
  <2> QED BY <1>9, <2>2, <2>3, <2>4 DEF ConversationIs
<1> QED BY <1>0, <1>00, <1>9, <1>10, <1>11, <1>12 DEF Conversations

\* Everyone a conversation is held with, beginning with its first chat.
HeldWith(chats, places, handles) ==
    /\ \A h \in ToSet(handles) : \E c \in places : h \in ToSet(chats[c].handles)
    /\ \A c \in places : (\A b \in places : c <= b) => \A h : chats[c].handles = <<h>> => handles[1] = h

LEMMA HandlesAre ==
    ASSUME NEW chats, Chats(chats), NEW places \in SUBSET DOMAIN chats
    PROVE  HeldWith(chats, places, HandlesOf(chats, places))
<1>0. PICK handles : handles = HandlesOf(chats, places)
  OBVIOUS
<1>00. PICK len \in Nat, M \in {Handles} : DOMAIN chats = 1 .. len
  BY DEF Chats
<1>000. places \in SUBSET (1 .. len) /\ \A c \in 1 .. len : chats[c].handles \in Seq(M)
  <2>1. ASSUME NEW c \in 1 .. len PROVE chats[c].handles \in Seq(M)
    <3>1. chats[c] \in ChatRecords
      BY <1>00 DEF Chats
    <3>2. M = Handles
      OBVIOUS
    <3> QED BY <3>1, <3>2 DEF ChatRecords
  <2> QED BY <1>00, <2>1
<1>1. PICK n \in Nat : n = Cardinality(places)
  BY <1>00, <1>000, PlacesInOrder
<1>2. PICK s \in [1 .. n -> places] :
         /\ s = InOrder(places) /\ \A i, j \in 1 .. n : i < j => s[i] < s[j]
         /\ \A x \in places : \E i \in 1 .. n : s[i] = x
  <2>1. /\ InOrder(places) \in [1 .. n -> places]
        /\ \A i, j \in 1 .. n : i < j => InOrder(places)[i] < InOrder(places)[j]
        /\ \A x \in places : \E i \in 1 .. n : InOrder(places)[i] = x
    BY <1>00, <1>000, <1>1, PlacesInOrder
  <2> QED BY <2>1
<1>3. PICK seqs : seqs = [i \in 1 .. n |-> chats[s[i]].handles]
  OBVIOUS
<1>4. seqs \in Seq(Seq(M)) /\ Len(seqs) = n /\ DOMAIN seqs = 1 .. n
  <2>1. \A i \in 1 .. n : seqs[i] \in Seq(M)
    BY <1>000, <1>2, <1>3
  <2> QED BY <1>3, <2>1
<1>5. handles = FlattenSeq(seqs)
  BY <1>0, <1>1, <1>2, <1>3 DEF HandlesOf
<1>6. handles \in Seq(M) /\ ToSet(handles) = UNION {ToSet(seqs[i]) : i \in DOMAIN seqs}
  BY <1>4, <1>5, FlattenedIs
<1>7. ASSUME NEW h \in ToSet(handles) PROVE \E c \in places : h \in ToSet(chats[c].handles)
  <2>1. PICK i \in 1 .. n : h \in ToSet(seqs[i])
    BY <1>4, <1>6
  <2>2. s[i] \in places /\ seqs[i] = chats[s[i]].handles
    BY <1>2, <1>3
  <2> QED BY <2>1, <2>2
<1>8. ASSUME NEW c \in places, NEW h, \A b \in places : c <= b, chats[c].handles = <<h>>
      PROVE  handles[1] = h
  <2>1. PICK i \in 1 .. n : s[i] = c
    BY <1>2
  <2>2. i = 1
    <3>1. SUFFICES ASSUME 1 < i PROVE FALSE
      OBVIOUS
    <3>2. 1 \in 1 .. n
      OBVIOUS
    <3>3. s[1] < s[i] /\ s[1] \in places /\ s[1] \in Nat /\ s[i] \in Nat
      <4>1. s[1] \in places /\ s[i] \in places
        BY <1>2, <3>2
      <4>2. s[1] < s[i]
        <5>1. \A j \in 1 .. n : 1 < j => s[1] < s[j]
          BY <1>2, <3>2
        <5> QED BY <3>1, <5>1
      <4>3. s[1] \in Nat /\ s[i] \in Nat
        <5>1. \A c2 \in places : c2 \in 1 .. len
          BY <1>000
        <5>2. \A c2 \in 1 .. len : c2 \in Nat
          BY <1>00
        <5> QED BY <4>1, <5>1, <5>2
      <4> QED BY <4>1, <4>2, <4>3
    <3>4. c <= s[1]
      BY <1>8, <3>3
    <3> QED BY <2>1, <3>3, <3>4
  <2>3. 1 \in 1 .. n /\ seqs[1] = <<h>>
    BY <1>3, <1>8, <2>1, <2>2
  <2>4. PICK off : Offsets(seqs, off)
    BY <1>4, OffsetsExist
  <2>5. FlattenSeq(seqs)[off[1 - 1] + 1] = seqs[1][1] /\ off[0] = 0
    <3>1. 1 \in 1 .. Len(seqs) /\ 1 \in 1 .. Len(seqs[1])
      BY <1>4, <2>3
    <3> QED BY <2>4, <3>1 DEF Offsets
  <2>6. off[1 - 1] + 1 = 1 /\ seqs[1][1] = h
    BY <2>3, <2>5
  <2> QED BY <1>5, <2>5, <2>6
<1> QED BY <1>0, <1>7, <1>8 DEF HeldWith

\* Which one is picked.
LEMMA PickIs ==
    ASSUME NEW m \in Nat, NEW all, Len(all) = m, DOMAIN all = 1 .. m, NEW want,
           NEW chosen, chosen = PickConversation(all, want), chosen # {}, NEW c, c = CHOOSE x \in chosen : TRUE
    PROVE  \E n \in 1 .. m :
              /\ chosen = {all[n]} /\ c = all[n]
              /\ want = Nobody => m = 1
              /\ want # Nobody => all[n].ident = want \/ want \in ToSet(all[n].handles)
<1>1. CASE want = Nobody
  <2>1. chosen = IF Len(all) = 1 THEN {all[1]} ELSE {}
    BY <1>1 DEF PickConversation
  <2>2. m = 1 /\ chosen = {all[1]}
    BY <2>1
  <2>3. c = all[1]
    BY <2>2
  <2> QED BY <1>1, <2>2, <2>3
<1>2. CASE want # Nobody
  <2>1. PICK named : named = {n \in 1 .. m : all[n].ident = want}
    OBVIOUS
  <2>2. PICK including : including = {n \in 1 .. m : want \in Range(all[n].handles)}
    OBVIOUS
  <2>3. PICK fits : fits = IF named # {} THEN named ELSE including
    OBVIOUS
  <2>4. chosen = IF fits = {} THEN {} ELSE {all[Min(fits)]}
    BY <1>2, <2>1, <2>2, <2>3, Zenon DEF PickConversation
  <2>5. fits # {} /\ chosen = {all[Min(fits)]}
    BY <2>4
  <2>6. Min(fits) \in fits
    <3>1. fits \in SUBSET Nat
      BY <2>1, <2>2, <2>3
    <3>2. PICK n \in fits : \A k \in fits : n <= k
      BY <2>5, <3>1, LeastNatural
    <3> QED BY <3>2 DEF Min
  <2>7. PICK n \in 1 .. m : n = Min(fits)
    BY <2>1, <2>2, <2>3, <2>6
  <2>8. chosen = {all[n]}
    BY <2>5, <2>7
  <2>9. c = all[n]
    BY <2>8
  <2>10. all[n].ident = want \/ want \in Range(all[n].handles)
    BY <2>1, <2>2, <2>3, <2>6, <2>7
  <2> QED BY <1>2, <2>8, <2>9, <2>10 DEF Range, ToSet
<1> QED BY <1>1, <1>2

Wishes == Others \cup {Mail(p) : p \in Others} \cup {Nobody, <<"group">>}

\* A person is no group, and no address by mail.
LEMMA AddressesDiffer ==
    /\ \A p \in Others : p # <<"group">> /\ \A q \in Others : p # Mail(q)
    /\ \A p, q : Mail(p) = Mail(q) => p = q
    /\ \A p : Mail(p) # <<"group">>
    /\ \A p \in Others : p # Nobody /\ Mail(p) # Nobody
    /\ <<"group">> # Nobody
<1>1. \A p \in Others : p # <<"group">> /\ \A q \in Others : p # Mail(q)
  BY OthersAssumption DEF Names, Mail
<1>2. \A p, q : Mail(p) = Mail(q) => p = q
  BY DEF Mail
<1>3. \A p : Mail(p) # <<"group">>
  BY DEF Mail
<1>4. \A p \in Others : p # Nobody /\ Mail(p) # Nobody
  BY NamesAssumption, NothingAssumption DEF Mail
<1>5. <<"group">> # Nobody
  BY NothingAssumption
<1> QED BY <1>1, <1>2, <1>3, <1>4, <1>5

\* The chats with one person, and those of groups.
LEMMA ChatsOfIdent ==
    ASSUME NEW chats, Chats(chats), NEW c \in DOMAIN chats
    PROVE  /\ chats[c].ident \in Others =>
                 /\ {chats[c].ident} \in Withs
                 /\ ToSet(chats[c].handles) \subseteq {chats[c].ident, Mail(chats[c].ident)}
                 /\ chats[c].handles = <<chats[c].ident>>
                    \/ \E b \in 1 .. (c - 1) : chats[b].ident = chats[c].ident
           /\ chats[c].ident \notin Others =>
                 chats[c].ident = <<"group">> /\ \E w \in Withs : Cardinality(w) > 1 /\ chats[c].handles = SetToSeq(w)
<1>1. CASE \E p \in Others : {p} \in Withs /\ chats[c] = ByNumber(p)
  <2>1. PICK p \in Others : {p} \in Withs /\ chats[c] = ByNumber(p)
    BY <1>1
  <2>2. chats[c].ident = p /\ chats[c].handles = <<p>>
    BY <2>1 DEF ByNumber
  <2>3. ToSet(<<p>>) \subseteq {p, Mail(p)}
    BY DEF ToSet
  <2> QED BY <2>1, <2>2, <2>3
<1>2. CASE \E p \in Others, b \in 1 .. (c - 1) : {p} \in Withs /\ chats[c] = ByMail(p) /\ chats[b] = ByNumber(p)
  <2>1. PICK p \in Others, b \in 1 .. (c - 1) : {p} \in Withs /\ chats[c] = ByMail(p) /\ chats[b] = ByNumber(p)
    BY <1>2
  <2>2. chats[c].ident = p /\ chats[c].handles = <<Mail(p)>> /\ chats[b].ident = p
    BY <2>1 DEF ByNumber, ByMail
  <2>3. ToSet(<<Mail(p)>>) \subseteq {p, Mail(p)}
    BY DEF ToSet
  <2> QED BY <2>1, <2>2, <2>3
<1>3. CASE \E w \in Withs : Cardinality(w) > 1 /\ chats[c] = OfGroup(w)
  <2>1. PICK w \in Withs : Cardinality(w) > 1 /\ chats[c] = OfGroup(w)
    BY <1>3
  <2>2. chats[c].ident = <<"group">> /\ chats[c].handles = SetToSeq(w)
    BY <2>1 DEF OfGroup
  <2>3. <<"group">> \notin Others
    BY AddressesDiffer
  <2> QED BY <2>1, <2>2, <2>3
<1> QED BY <1>1, <1>2, <1>3 DEF Chats

\* A wish that selects the conversation with p.
Picks(chats, want, c, p) ==
    /\ {p} \in Withs /\ Meant(want) = {p} /\ c.ident = p
    /\ c.chats = ChatsWith(chats, p) /\ c.handles[1] = p

\* Whoever is imported is who was meant, and in no group.
LEMMA OnePicked ==
    ASSUME WellTold, NEW groupFirst \in BOOLEAN, NEW db, db.chats = MacChats(groupFirst), NEW want \in Wishes,
           NEW chosen, chosen = PickConversation(ConversationsIn(db), want), chosen # {},
           NEW c, c = CHOOSE x \in chosen : TRUE, ~c.isGroup
    PROVE  \E p \in Others : Picks(db.chats, want, c, p)
<1>1. PICK chats : chats = db.chats
  OBVIOUS
<1>2. /\ Chats(chats) /\ \A q : {q} \in Withs => \E x \in DOMAIN chats : chats[x] = ByNumber(q)
      /\ \A w \in Groups : \E x \in DOMAIN chats : chats[x] = OfGroup(w)
  BY <1>1, ChatsAre
<1>3. chats \in Seq(ChatRecords)
  BY <1>2 DEF Chats
<1>4. PICK len \in Nat : DOMAIN chats = 1 .. len
  BY <1>3
<1>5. PICK all : all = ConversationsIn(db)
  OBVIOUS
<1>6. PICK m \in Nat :
         /\ Len(all) = m /\ DOMAIN all = 1 .. m
         /\ \A n \in 1 .. m : \E x \in DOMAIN chats : ConversationIs(chats, all[n], chats[x].ident)
         /\ \A x \in DOMAIN chats : \E n \in 1 .. m : all[n].ident = chats[x].ident
  <2>1. Conversations(chats, all)
    BY <1>1, <1>2, <1>5, ConversationsAre
  <2> QED BY <2>1 DEF Conversations
<1>7. PICK n \in 1 .. m :
         /\ c = all[n]
         /\ want = Nobody => m = 1
         /\ want # Nobody => c.ident = want \/ want \in ToSet(c.handles)
  <2>1. chosen = PickConversation(all, want)
    BY <1>5
  <2>2. \E n \in 1 .. m :
              /\ chosen = {all[n]} /\ c = all[n]
              /\ want = Nobody => m = 1
              /\ want # Nobody => all[n].ident = want \/ want \in ToSet(all[n].handles)
    <3>1. Len(all) = m /\ DOMAIN all = 1 .. m
      BY <1>6
    <3> QED BY ONLY <2>1, <3>1, m \in Nat, chosen # {}, c = CHOOSE x \in chosen : TRUE, PickIs
  <2> QED BY <2>2
<1>8. PICK x \in DOMAIN chats : ConversationIs(chats, all[n], chats[x].ident)
  BY <1>6
<1>9. PICK k, places : k = chats[x].ident /\ places = ChatsWith(chats, k)
  OBVIOUS
<1>10. /\ c.ident = k /\ c.chats = places /\ c.handles = HandlesOf(chats, places)
       /\ c.isGroup <=> \E y \in places : Len(chats[y].handles) > 1
  BY <1>7, <1>8, <1>9 DEF ConversationIs
<1>11. places \in SUBSET (1 .. len) /\ x \in places /\ \A y \in places : chats[y].ident = k
  BY <1>4, <1>9 DEF ChatsWith
<1>12. k \in Others
  <2>1. SUFFICES ASSUME k \notin Others PROVE FALSE
    OBVIOUS
  <2>2. PICK w \in Withs : Cardinality(w) > 1 /\ chats[x].handles = SetToSeq(w)
    BY <1>2, <1>9, <2>1, ChatsOfIdent
  <2>3. Len(chats[x].handles) > 1
    <3>1. IsFiniteSet(w)
      BY WithsAre
    <3>2. Len(SetToSeq(w)) = Cardinality(w)
      BY <3>1, SetToSeqIs
    <3> QED BY <2>2, <3>2
  <2> QED BY <1>10, <1>11, <2>3
<1>13. {k} \in Withs
  BY <1>2, <1>9, <1>12, ChatsOfIdent
<1>14. /\ \A h \in ToSet(c.handles) : \E y \in places : h \in ToSet(chats[y].handles)
       /\ \A y \in places : (\A b \in places : y <= b) => \A h : chats[y].handles = <<h>> => c.handles[1] = h
  <2>1. HeldWith(chats, places, HandlesOf(chats, places))
    BY <1>2, <1>4, <1>11, HandlesAre
  <2> QED BY <1>10, <2>1 DEF HeldWith
<1>15. \A h \in ToSet(c.handles) : h = k \/ h = Mail(k)
  <2>1. TAKE h \in ToSet(c.handles)
  <2>2. PICK y \in places : h \in ToSet(chats[y].handles)
    BY <1>14
  <2>3. y \in DOMAIN chats /\ chats[y].ident = k
    BY <1>4, <1>11
  <2>4. ToSet(chats[y].handles) \subseteq {k, Mail(k)}
    BY <1>2, <1>12, <2>3, ChatsOfIdent
  <2> QED BY <2>2, <2>4
<1>16. c.handles[1] = k
  <2>1. places \in SUBSET Nat /\ places # {}
    BY <1>11
  <2>2. PICK y \in places : \A b \in places : y <= b
    BY <2>1, LeastNatural
  <2>3. y \in DOMAIN chats /\ chats[y].ident = k /\ y \in Nat
    BY <1>4, <1>11, <2>1
  <2>4. chats[y].handles = <<k>> \/ \E b \in 1 .. (y - 1) : chats[b].ident = k
    BY <1>2, <1>12, <2>3, ChatsOfIdent
  <2>5. ~ \E b \in 1 .. (y - 1) : chats[b].ident = k
    <3>1. SUFFICES ASSUME NEW b \in 1 .. (y - 1), chats[b].ident = k PROVE FALSE
      OBVIOUS
    <3>2. b \in DOMAIN chats
      BY <1>4, <2>3
    <3>3. b \in places
      BY <1>9, <3>1, <3>2 DEF ChatsWith
    <3>4. y <= b
      BY <2>2, <3>3
    <3> QED BY <2>3, <3>4
  <2> QED BY <1>14, <2>2, <2>4, <2>5
<1>17. Meant(want) = {k}
  <2>1. CASE want = Nobody
    <3>1. m = 1 /\ n = 1
      BY <1>7, <2>1
    <3>2. \A y \in DOMAIN chats : chats[y].ident = k
      <4>1. TAKE y \in DOMAIN chats
      <4>2. PICK l \in 1 .. m : all[l].ident = chats[y].ident
        BY <1>6
      <4>3. l = 1
        BY <3>1
      <4> QED BY <1>7, <1>10, <3>1, <4>2, <4>3
    <3>3. \A w \in Withs : w = {k}
      <4>1. TAKE w \in Withs
      <4>2. CASE Cardinality(w) > 1
        <5>1. PICK y \in DOMAIN chats : chats[y] = OfGroup(w)
          BY <1>2, <4>2 DEF Groups
        <5>2. k = <<"group">>
          BY <3>2, <5>1 DEF OfGroup
        <5> QED BY <1>12, <5>2, AddressesDiffer
      <4>3. CASE ~(Cardinality(w) > 1)
        <5>1. PICK q \in Others : w = {q}
          BY <4>3, WithsAre
        <5>2. PICK y \in DOMAIN chats : chats[y] = ByNumber(q)
          BY <1>2, <5>1
        <5>3. k = q
          BY <3>2, <5>2 DEF ByNumber
        <5> QED BY <5>1, <5>3
      <4> QED BY <4>2, <4>3
    <3>4. UNION Withs = {k}
      BY <1>13, <3>3
    <3> QED BY <2>1, <3>4 DEF Meant
  <2>2. CASE want # Nobody
    <3>1. want = k \/ want = Mail(k)
      BY <1>7, <1>10, <1>15, <2>2
    <3>2. want # <<"group">>
      BY <1>12, <3>1, AddressesDiffer
    <3>3. CASE want = k
      <4>1. ~ \E q \in Others : want = Mail(q) /\ {q} \in Withs
        BY <1>12, <3>3, AddressesDiffer
      <4>2. {want} \in Withs
        BY <1>13, <3>3
      <4> QED BY <2>2, <3>2, <3>3, <4>1, <4>2, Zenon DEF Meant
    <3>4. CASE want = Mail(k)
      <4>1. \E q \in Others : want = Mail(q) /\ {q} \in Withs
        BY <1>12, <1>13, <3>4
      <4>2. {q \in Others : want = Mail(q)} = {k}
        BY <1>12, <3>4, AddressesDiffer
      <4> QED BY <2>2, <3>2, <4>1, <4>2, Zenon DEF Meant
    <3> QED BY <3>1, <3>3, <3>4
  <2> QED BY <2>1, <2>2
<1> QED BY <1>1, <1>9, <1>10, <1>12, <1>13, <1>16, <1>17 DEF Picks

-----------------------------------------------------------------------------
(* The Mac's database: its rows *)

\* By date, then by number, each once.
InReadingOrder(date, rows, order) ==
    /\ order \in Seq(rows)
    /\ \A i \in rows : \E k \in DOMAIN order : order[k] = i
    /\ \A k, l \in DOMAIN order : k < l =>
          date[order[k]] < date[order[l]] \/ (date[order[k]] = date[order[l]] /\ order[k] < order[l])

LEMMA PlacesJoined ==
    ASSUME NEW m \in Nat, NEW off \in [0 .. m -> Nat], NEW len \in [1 .. m -> Nat], off[0] = 0,
           \A j \in 1 .. m : len[j] > 0 /\ off[j] = off[j - 1] + len[j]
    PROVE  /\ \A k \in 1 .. off[m] : \E j \in 1 .. m : \E x \in 1 .. len[j] : k = off[j - 1] + x
           /\ \A j \in 1 .. m : \A x \in 1 .. len[j] : off[j - 1] + x \in 1 .. off[m]
           /\ \A j, i \in 1 .. m : \A x \in 1 .. len[j], y \in 1 .. len[i] :
                 off[j - 1] + x < off[i - 1] + y => j < i \/ (j = i /\ x < y)
<1>1. \A j \in 1 .. m : off[j - 1] < off[j] /\ off[j - 1] \in Nat /\ off[j] \in Nat /\ len[j] \in Nat
  <2>1. TAKE j \in 1 .. m
  <2>2. j - 1 \in 0 .. m /\ j \in 0 .. m
    OBVIOUS
  <2>3. PICK a \in Nat, b \in Nat, c \in Nat : a = off[j - 1] /\ b = off[j] /\ c = len[j]
    BY <2>2
  <2>4. c > 0 /\ b = a + c
    BY <2>3
  <2> QED BY <2>3, <2>4
<1>2. /\ \A i, j \in 0 .. m : i < j => off[i] < off[j]
      /\ \A x \in Nat : off[0] < x /\ x <= off[m] => \E j \in 1 .. m : off[j - 1] < x /\ x <= off[j]
  BY <1>1, StrictlyGrows
<1>3. \A i, j \in 0 .. m : off[i] \in Nat /\ (i <= j => off[i] <= off[j])
  <2>1. TAKE i, j \in 0 .. m
  <2>2. off[i] \in Nat /\ off[j] \in Nat
    OBVIOUS
  <2>3. CASE i = j
    BY <2>2, <2>3
  <2>4. CASE i # j
    BY <1>2, <2>2, <2>4
  <2> QED BY <2>3, <2>4
<1>4. ASSUME NEW k \in 1 .. off[m]
      PROVE  \E j \in 1 .. m : \E x \in 1 .. len[j] : k = off[j - 1] + x
  <2>0. PICK top \in Nat : top = off[m]
    OBVIOUS
  <2>1. k \in Nat /\ 0 < k /\ k <= top
    BY <1>4, <2>0
  <2>2. PICK j \in 1 .. m : off[j - 1] < k /\ k <= off[j]
    BY <1>2, <2>0, <2>1
  <2>3. PICK a \in Nat, b \in Nat, c \in Nat : a = off[j - 1] /\ b = off[j] /\ c = len[j]
    BY <1>1
  <2>4. b = a + c
    BY <2>3
  <2>5. k - a \in 1 .. c /\ k = a + (k - a)
    BY SMTT(40), <2>1, <2>2, <2>3, <2>4
  <2> QED BY <2>3, <2>5
<1>5. ASSUME NEW j \in 1 .. m, NEW x \in 1 .. len[j] PROVE off[j - 1] + x \in 1 .. off[m]
  <2>1. PICK a \in Nat, b \in Nat, c \in Nat, top \in Nat : a = off[j - 1] /\ b = off[j] /\ c = len[j] /\ top = off[m]
    BY <1>1
  <2>2. b = a + c /\ x \in 1 .. c
    BY <2>1
  <2>3. b <= top
    <3>1. j \in 0 .. m /\ m \in 0 .. m /\ j <= m
      OBVIOUS
    <3> QED BY <1>3, <2>1, <3>1
  <2>4. a + x \in 1 .. top
    BY <2>2, <2>3
  <2> QED BY <2>1, <2>4
<1>6. ASSUME NEW j \in 1 .. m, NEW i \in 1 .. m, NEW x \in 1 .. len[j], NEW y \in 1 .. len[i],
             off[j - 1] + x < off[i - 1] + y
      PROVE  j < i \/ (j = i /\ x < y)
  <2>1. PICK a \in Nat, c \in Nat, e \in Nat, b \in Nat, d \in Nat :
           a = off[j - 1] /\ c = len[j] /\ e = off[i - 1] /\ b = off[i] /\ d = len[i]
    BY <1>1
  <2>2. b = e + d /\ x \in 1 .. c /\ y \in 1 .. d /\ a + x < e + y
    BY <1>6, <2>1
  <2>3. CASE i < j
    <3>1. i \in 0 .. m /\ j - 1 \in 0 .. m /\ i <= j - 1
      BY <2>3
    <3>2. b <= a
      BY <1>3, <2>1, <3>1
    <3> QED BY <2>2, <3>2
  <2>4. CASE i = j
    <3>1. a = e
      BY <2>1, <2>4
    <3> QED BY <2>2, <2>4, <3>1
  <2> QED BY <2>3, <2>4
<1> QED BY <1>4, <1>5, <1>6

LEMMA MacRowsRead ==
    ASSUME NEW n \in Nat, NEW db, NEW date \in [1 .. n -> Nat], DOMAIN db.rows = 1 .. n,
           \A i \in 1 .. n : db.rows[i].date = date[i], NEW chats,
           NEW rows, rows = {i \in 1 .. n : db.rows[i].chats \cap chats # {}}
    PROVE  InReadingOrder(date, rows, ReadRows(db, chats))
<1>1. PICK D : D = {date[i] : i \in rows}
  OBVIOUS
<1>2. rows \in SUBSET (1 .. n) /\ IsFiniteSet(rows) /\ rows \in SUBSET Nat
  BY PlacesInOrder
<1>3. D \in SUBSET Nat /\ IsFiniteSet(D)
  <2>1. PICK f : f = [i \in rows |-> date[i]]
    OBVIOUS
  <2>2. DOMAIN f = rows /\ \A i \in rows : f[i] = date[i]
    BY <2>1
  <2>3. IsFiniteSet({f[i] : i \in rows})
    BY SMTT(40), <1>2, <2>2, FiniteImage
  <2>4. D = {f[i] : i \in rows}
    BY <1>1, <2>2
  <2>5. \A i \in rows : date[i] \in Nat
    BY <1>2
  <2> QED BY <1>1, <2>3, <2>4, <2>5
<1>4. PICK m \in Nat : m = Cardinality(D)
  BY <1>3, FS_CardinalityType
<1>5. PICK dates \in [1 .. m -> D] :
         /\ dates = InOrder(D) /\ \A i, j \in 1 .. m : i < j => dates[i] < dates[j]
         /\ \A x \in D : \E i \in 1 .. m : dates[i] = x
  <2>1. /\ InOrder(D) \in [1 .. m -> D]
        /\ \A i, j \in 1 .. m : i < j => InOrder(D)[i] < InOrder(D)[j]
        /\ \A x \in D : \E i \in 1 .. m : InOrder(D)[i] = x
    BY <1>3, <1>4, InOrderIs
  <2> QED BY <2>1
<1>6. PICK R : R = [j \in 1 .. m |-> {i \in rows : date[i] = dates[j]}]
  OBVIOUS
<1>7. PICK seqs : seqs = [j \in 1 .. m |-> InOrder(R[j])]
  OBVIOUS
<1>8. ASSUME NEW j \in 1 .. m
      PROVE  /\ R[j] \in SUBSET rows /\ \A i \in R[j] : date[i] = dates[j]
             /\ seqs[j] \in Seq(rows) /\ Len(seqs[j]) \in Nat \ {0}
             /\ \A x \in 1 .. Len(seqs[j]) : seqs[j][x] \in R[j]
             /\ \A x, y \in 1 .. Len(seqs[j]) : x < y => seqs[j][x] < seqs[j][y]
             /\ \A i \in R[j] : \E x \in 1 .. Len(seqs[j]) : seqs[j][x] = i
  <2>1. R[j] \in SUBSET rows /\ \A i \in R[j] : date[i] = dates[j]
    BY <1>6
  <2>2. R[j] \in SUBSET (1 .. n) /\ R[j] # {}
    <3>1. dates[j] \in D
      BY <1>5
    <3> QED BY <1>1, <1>2, <1>6, <2>1, <3>1
  <2>3. PICK S \in SUBSET (1 .. n) : S = R[j]
    BY <2>2
  <2>4. /\ IsFiniteSet(S) /\ Cardinality(S) \in Nat /\ InOrder(S) \in [1 .. Cardinality(S) -> S]
        /\ \A x, y \in 1 .. Cardinality(S) : x < y => InOrder(S)[x] < InOrder(S)[y]
        /\ \A i \in S : \E x \in 1 .. Cardinality(S) : InOrder(S)[x] = i
    BY ONLY n \in Nat, S \in SUBSET (1 .. n), PlacesInOrder
  <2>50. PICK c \in Nat : c = Cardinality(S)
    BY <2>4
  <2>5. PICK s : s = InOrder(S)
    OBVIOUS
  <2>6. s \in [1 .. c -> S] /\ s = seqs[j] /\ s \in Seq(S) /\ Len(s) = c
    <3>1. s = seqs[j]
      BY <1>7, <2>3, <2>5
    <3>2. s \in [1 .. c -> S]
      BY <2>4, <2>50, <2>5
    <3>3. s \in Seq(S) /\ Len(s) = c
      BY <3>2
    <3> QED BY <3>1, <3>2, <3>3
  <2>7. c # 0
    BY <2>2, <2>3, <2>4, <2>50, <2>5
  <2>8. seqs[j] \in Seq(rows)
    BY <2>1, <2>3, <2>6
  <2>9. /\ \A x \in 1 .. c : s[x] \in S
        /\ \A x, y \in 1 .. c : x < y => s[x] < s[y]
        /\ \A i \in S : \E x \in 1 .. c : s[x] = i
    BY <2>4, <2>50, <2>5
  <2> QED BY <2>1, <2>3, <2>6, <2>7, <2>8, <2>9
<1>9. seqs \in Seq(Seq(rows)) /\ Len(seqs) = m
  BY SMTT(40), <1>7, <1>8
<1>10. PICK order \in Seq(rows) : order = FlattenSeq(seqs)
  BY <1>9, OffsetsExist
<1>11. ReadRows(db, chats) = order
  <2>1. rows = {i \in DOMAIN db.rows : db.rows[i].chats \cap chats # {}}
    OBVIOUS
  <2>2. D = {db.rows[i].date : i \in rows}
    BY <1>1, <1>2
  <2>3. DOMAIN dates = 1 .. m
    BY <1>5
  <2>4. \A j \in 1 .. m : {i \in rows : db.rows[i].date = dates[j]} = R[j]
    BY <1>2, <1>6
  <2>5. seqs = [j \in DOMAIN dates |-> InOrder({i \in rows : db.rows[i].date = dates[j]})]
    BY <1>7, <2>3, <2>4
  <2>6. ReadRows(db, chats) = FlattenSeq([j \in DOMAIN InOrder({db.rows[i].date : i \in rows}) |->
            InOrder({i \in rows : db.rows[i].date = InOrder({db.rows[i2].date : i2 \in rows})[j]})])
    BY <2>1, Zenon DEF ReadRows
  <2>7. ReadRows(db, chats) = FlattenSeq([j \in DOMAIN dates |-> InOrder({i \in rows : db.rows[i].date = dates[j]})])
    BY <1>5, <2>2, <2>6, Zenon
  <2> QED BY <1>10, <2>5, <2>7
<1>12. PICK off : Offsets(seqs, off)
  BY <1>9, OffsetsExist
<1>13. PICK len \in [1 .. m -> Nat] : \A j \in 1 .. m : len[j] = Len(seqs[j]) /\ len[j] > 0
  <2>1. PICK len : len = [j \in 1 .. m |-> Len(seqs[j])]
    OBVIOUS
  <2>2. \A j \in 1 .. m : len[j] = Len(seqs[j]) /\ len[j] \in Nat \ {0}
    BY <1>8, <2>1
  <2>3. len \in [1 .. m -> Nat] /\ \A j \in 1 .. m : len[j] > 0
    BY <2>1, <2>2
  <2> QED BY <2>2, <2>3
<1>14. /\ off \in [0 .. m -> Nat] /\ off[0] = 0 /\ DOMAIN order = 1 .. off[m]
       /\ \A j \in 1 .. m : len[j] > 0 /\ off[j] = off[j - 1] + len[j]
       /\ \A j \in 1 .. m : \A x \in 1 .. len[j] : order[off[j - 1] + x] = seqs[j][x]
  <2>1. /\ off \in [0 .. m -> Nat] /\ off[0] = 0 /\ Len(order) = off[m]
        /\ \A j \in 1 .. m : off[j] = off[j - 1] + Len(seqs[j])
        /\ \A j \in 1 .. m : \A x \in 1 .. Len(seqs[j]) : order[off[j - 1] + x] = seqs[j][x]
    BY <1>9, <1>10, <1>12 DEF Offsets
  <2>2. DOMAIN order = 1 .. off[m]
    BY <1>10, <2>1
  <2> QED BY <1>13, <2>1, <2>2
<1>15. /\ \A k \in 1 .. off[m] : \E j \in 1 .. m : \E x \in 1 .. len[j] : k = off[j - 1] + x
       /\ \A j \in 1 .. m : \A x \in 1 .. len[j] : off[j - 1] + x \in 1 .. off[m]
       /\ \A j, i \in 1 .. m : \A x \in 1 .. len[j], y \in 1 .. len[i] :
             off[j - 1] + x < off[i - 1] + y => j < i \/ (j = i /\ x < y)
  BY ONLY <1>13, <1>14, m \in Nat, len \in [1 .. m -> Nat], PlacesJoined
<1>16. ASSUME NEW i \in rows PROVE \E k \in DOMAIN order : order[k] = i
  <2>1. date[i] \in D
    BY <1>1
  <2>2. PICK j \in 1 .. m : dates[j] = date[i]
    BY <1>5, <2>1
  <2>3. i \in R[j]
    BY <1>6, <2>2
  <2>4. PICK x \in 1 .. len[j] : seqs[j][x] = i
    <3>1. PICK x \in 1 .. Len(seqs[j]) : seqs[j][x] = i
      BY <1>8, <2>3
    <3> QED BY <1>13, <3>1
  <2>5. order[off[j - 1] + x] = i /\ off[j - 1] + x \in DOMAIN order
    BY <1>14, <1>15, <2>4
  <2> QED BY <2>5
<1>17. ASSUME NEW k \in DOMAIN order, NEW l \in DOMAIN order, k < l
       PROVE  date[order[k]] < date[order[l]] \/ (date[order[k]] = date[order[l]] /\ order[k] < order[l])
  <2>1. PICK j \in 1 .. m : \E x \in 1 .. len[j] : k = off[j - 1] + x
    BY <1>14, <1>15
  <2>2. PICK x \in 1 .. len[j] : k = off[j - 1] + x
    BY <2>1
  <2>3. PICK i \in 1 .. m : \E y \in 1 .. len[i] : l = off[i - 1] + y
    <3>1. l \in 1 .. off[m]
      BY <1>14
    <3> QED BY <1>15, <3>1
  <2>4. PICK y \in 1 .. len[i] : l = off[i - 1] + y
    BY <2>3
  <2>5. order[k] = seqs[j][x] /\ order[l] = seqs[i][y]
    BY <1>14, <2>2, <2>4
  <2>6. j < i \/ (j = i /\ x < y)
    BY <1>15, <1>17, <2>2, <2>4
  <2>7. x \in 1 .. Len(seqs[j]) /\ y \in 1 .. Len(seqs[i])
    BY <1>13
  <2>8. seqs[j][x] \in R[j] /\ seqs[i][y] \in R[i]
    BY <1>8, <2>7
  <2>9. date[order[k]] = dates[j] /\ date[order[l]] = dates[i]
    BY <1>8, <2>5, <2>8
  <2>10. CASE j < i
    BY <1>5, <2>9, <2>10
  <2>11. CASE j = i /\ x < y
    <3>1. seqs[j][x] < seqs[j][y]
      BY <1>8, <2>7, <2>11
    <3> QED BY <2>5, <2>9, <2>11, <3>1
  <2> QED BY <2>6, <2>10, <2>11
<1> QED BY ZenonT(40), <1>10, <1>11, <1>16, <1>17 DEF InReadingOrder

\* The instant of a row, in seconds since Apple's epoch or in nanoseconds.
RawAt(h, recent) == (SecondsAt(h) - AppleEpoch) * (IF recent THEN Scale * Scale ELSE 1)

LEMMA AppleRead ==
    ASSUME NEW h \in Nat, SecondsAt(h) < Threshold, NEW recent \in BOOLEAN
    PROVE  RawAt(h, recent) \in Nat \ {0} /\ AppleMs(RawAt(h, recent)) = MsAt(h)
<1>1. PICK s \in Nat : s = Scale /\ s > 2
  BY ScaleAssumption
<1>2. SecondsAt(h) = 100 + h /\ SecondsAt(h) - AppleEpoch = 50 + h /\ Threshold = 100 * s
  BY <1>1 DEF SecondsAt, AppleEpoch, Threshold
<1>3. CASE recent
  <2>1. PICK q \in Nat : q = (50 + h) * s
    <3>1. (50 + h) * s \in Nat
      BY <1>1
    <3> QED BY <3>1
  <2>2. PICK raw : raw = RawAt(h, recent)
    OBVIOUS
  <2>3. raw = q * s
    <3>1. raw = (50 + h) * (s * s)
      BY <1>1, <1>2, <1>3, <2>2 DEF RawAt
    <3>2. (50 + h) * (s * s) = ((50 + h) * s) * s
      BY <1>1
    <3> QED BY <2>1, <3>1, <3>2
  <2>4. q > 100
    <3>1. \A a \in Nat, b \in Nat : b >= 3 => (50 + a) * b > 100
      <4>1. TAKE a \in Nat, b \in Nat
      <4>2. HAVE b >= 3
      <4>3. PICK c \in Nat : b = 3 + c
        BY <4>2
      <4>4. (50 + a) * (3 + c) = 150 + 3 * a + (50 + a) * c
        OBVIOUS
      <4>5. (50 + a) * c \in Nat
        OBVIOUS
      <4> QED BY <4>3, <4>4, <4>5
    <3> QED BY <1>1, <2>1, <3>1
  <2>5. raw \in Nat /\ raw > 100 * s
    <3>1. PICK d \in Nat : q = 101 + d
      BY <2>4
    <3>2. q * s = 101 * s + d * s /\ d * s \in Nat
      BY <1>1, <3>1
    <3> QED BY <1>1, <2>3, <3>2
  <2>6. raw \div s = q
    <3>1. s \in Nat \ {0} /\ 0 \in 0 .. (s - 1)
      BY <1>1
    <3>2. (s * q + 0) \div s = q
      BY <3>1, DivModIs
    <3>3. s * q + 0 = raw
      BY <1>1, <2>3
    <3> QED BY <3>2, <3>3
  <2>7. AppleMs(raw) = 50 * s + q
    <3>1. raw # 0 /\ raw > Threshold
      BY <1>1, <1>2, <2>5
    <3> QED BY <1>1, <2>6, <3>1 DEF AppleMs, AppleEpoch
  <2>8. MsAt(h) = (100 + h) * s /\ (100 + h) * s = 50 * s + (50 + h) * s
    BY <1>1, <1>2 DEF MsAt
  <2>9. raw # 0
    BY <1>1, <2>5
  <2> QED BY <2>1, <2>2, <2>5, <2>7, <2>8, <2>9
<1>4. CASE ~recent
  <2>1. RawAt(h, recent) = 50 + h
    BY <1>2, <1>4 DEF RawAt
  <2>2. ~(50 + h > Threshold) /\ 50 + h # 0
    BY <1>1, <1>2
  <2>3. AppleMs(50 + h) = (50 + (50 + h)) * s
    BY <1>1, <2>2 DEF AppleMs, AppleEpoch
  <2>4. MsAt(h) = (100 + h) * s /\ 50 + (50 + h) = 100 + h
    BY <1>1, <1>2 DEF MsAt
  <2> QED BY <2>1, <2>3, <2>4
<1> QED BY <1>3, <1>4

LEMMA RawGrows ==
    ASSUME NEW g \in Nat, NEW h \in Nat, g <= h, NEW recent \in BOOLEAN
    PROVE  RawAt(g, recent) <= RawAt(h, recent)
<1>1. PICK f \in Nat : f = IF recent THEN Scale * Scale ELSE 1
  BY ScaleAssumption
<1>2. RawAt(g, recent) = (50 + g) * f /\ RawAt(h, recent) = (50 + h) * f
  BY <1>1 DEF RawAt, SecondsAt, AppleEpoch
<1>3. PICK d \in Nat : h = g + d
  BY h - g \in Nat
<1>4. (50 + (g + d)) * f = (50 + g) * f + d * f /\ d * f \in Nat /\ (50 + g) * f \in Nat
  OBVIOUS
<1> QED BY <1>2, <1>3, <1>4

\* What a reaction may be about.
SamePlaces(u, i) == {j \in 1 .. (i - 1) : told[j].kind = "text" /\ told[j].with = u.with /\ told[j].words = u.words}

\* Words in a blob.
TypedStream(words) == <<<<<<"class", "">>>>, words>>

\* What the database has of an utterance.
LEMMA MacRowIs ==
    ASSUME NEW u, NEW i, NEW chats, NEW recent \in BOOLEAN, NEW row, row = MacRow(u, i, chats, recent),
           NEW same, same = SamePlaces(u, i)
    PROVE  /\ row.guid = i /\ row.mine = (u.by = Myself)
           /\ row.chats = ChatsWith(chats, Ident(u.with))
           /\ row.date = IF u.kind = "undated" THEN 0 ELSE RawAt(u.at, recent)
           /\ row.text = IF u.kind = "text" /\ ~recent THEN u.words ELSE <<>>
           /\ u.kind = "unreadable" => row.blob = Nobody
           /\ u.kind \in {"text", "undated"} /\ recent => row.blob = TypedStream(u.words)
           /\ u.kind # "unreadable" /\ ~(u.kind \in {"text", "undated"} /\ recent) => row.blob = <<>>
           /\ row.type = IF u.kind = "reaction" THEN 2000 ELSE IF u.kind = "removal" THEN 3000 ELSE 0
           /\ row.about = IF same = {} THEN 0 ELSE Min(same)
           /\ row.retracted <=> u.kind = "unsent"
<1>1. PICK blob : blob = CASE u.kind = "unreadable" -> Nobody
                          [] u.kind \in {"text", "undated"} /\ recent -> TypedStream(u.words)
                          [] OTHER -> <<>>
  OBVIOUS
<1>2. PICK type : type = CASE u.kind = "reaction" -> 2000 [] u.kind = "removal" -> 3000 [] OTHER -> 0
  OBVIOUS
<1>3. row = [guid |-> i, mine |-> u.by = Myself,
        chats |-> {c \in DOMAIN chats : chats[c].ident = Ident(u.with)},
        date |-> IF u.kind = "undated" THEN 0 ELSE RawAt(u.at, recent),
        text |-> IF u.kind = "text" /\ ~recent THEN u.words ELSE <<>>,
        blob |-> blob, type |-> type,
        about |-> IF same = {} THEN 0 ELSE Min(same),
        retracted |-> u.kind = "unsent"]
  BY <1>1, <1>2, Zenon DEF MacRow, RawAt, SamePlaces, TypedStream
<1>4. /\ u.kind = "unreadable" => blob = Nobody
      /\ u.kind \in {"text", "undated"} /\ recent => blob = TypedStream(u.words)
      /\ u.kind # "unreadable" /\ ~(u.kind \in {"text", "undated"} /\ recent) => blob = <<>>
  BY <1>1
<1>5. type = IF u.kind = "reaction" THEN 2000 ELSE IF u.kind = "removal" THEN 3000 ELSE 0
  BY <1>2
<1>6. /\ row.guid = i /\ row.mine = (u.by = Myself)
      /\ row.chats = {c \in DOMAIN chats : chats[c].ident = Ident(u.with)}
      /\ row.date = (IF u.kind = "undated" THEN 0 ELSE RawAt(u.at, recent))
      /\ row.text = (IF u.kind = "text" /\ ~recent THEN u.words ELSE <<>>)
      /\ row.blob = blob /\ row.type = type
      /\ row.about = (IF same = {} THEN 0 ELSE Min(same))
      /\ row.retracted <=> u.kind = "unsent"
  <2>1. row.guid = i /\ row.mine = (u.by = Myself)
    BY ONLY <1>3, Zenon
  <2>2. row.chats = {c \in DOMAIN chats : chats[c].ident = Ident(u.with)}
    BY ONLY <1>3, Zenon
  <2>3. row.date = (IF u.kind = "undated" THEN 0 ELSE RawAt(u.at, recent))
    BY ONLY <1>3, Zenon
  <2>4. row.text = (IF u.kind = "text" /\ ~recent THEN u.words ELSE <<>>)
    BY ONLY <1>3, Zenon
  <2>5. row.blob = blob /\ row.type = type
    BY ONLY <1>3, Zenon
  <2>6. row.about = (IF same = {} THEN 0 ELSE Min(same))
    BY ONLY <1>3, Zenon
  <2>7. row.retracted = (u.kind = "unsent")
    BY ONLY <1>3, Zenon
  <2>8. row.retracted <=> u.kind = "unsent"
    BY ONLY <2>7, Zenon
  <2> QED BY <2>1, <2>2, <2>3, <2>4, <2>5, <2>6, <2>8, Zenon
<1>7. row.chats = ChatsWith(chats, Ident(u.with))
  BY <1>6 DEF ChatsWith
<1> QED BY <1>4, <1>5, <1>6, <1>7

\* Of a blob the words are found, whatever metadata stands before them.
LEMMA BlobRead ==
    ASSUME NEW words \in Seq(Token), Speech(words), NEW blob, blob = TypedStream(words)
    PROVE  BodyOfBlob(blob) = words /\ blob # <<>>
<1>1. <<"class", "">> \in Token /\ <<"class", "">> \in Metadata
  BY DEF Token, Special, Metadata
<1>2. PICK c \in Token : c = <<"class", "">> /\ c \in Metadata
  BY <1>1
<1>3. PICK meta : meta = <<c>>
  OBVIOUS
<1>4. meta \in Seq(Token) /\ blob = <<meta, words>>
  <2>1. meta \in Seq(Token)
    BY <1>3, PairIsASeq
  <2>2. blob = <<<<<<"class", "">>>>, words>>
    BY DEF TypedStream
  <2>3. blob = <<meta, words>>
    BY ONLY <1>2, <1>3, <2>2, Zenon
  <2> QED BY <2>1, <2>3
<1>5. blob \in Seq(Seq(Token)) /\ DOMAIN blob = 1 .. 2 /\ blob[1] = meta /\ blob[2] = words /\ blob # <<>>
  <2>1. blob \in Seq(Seq(Token))
    BY <1>4, PairIsASeq
  <2>2. DOMAIN blob = 1 .. 2 /\ blob[1] = meta /\ blob[2] = words
    BY <1>4
  <2>3. blob # <<>>
    <3>1. 1 \in DOMAIN blob
      BY <2>2
    <3> QED BY <3>1
  <2> QED BY <2>1, <2>2, <2>3
<1>6. blob # Nobody
  BY <1>5, NothingAssumption
<1>7. c \in Range(meta)
  <2>1. 1 \in DOMAIN meta /\ meta[1] = c
    BY <1>3
  <2> QED BY <2>1 DEF Range
<1>8. Trim(words) = words /\ words # <<>> /\ \A t \in Range(words) : t \notin Metadata
  BY SpeechIs DEF Range
<1>9. PICK bodies : bodies = {i \in DOMAIN blob : /\ Trim(blob[i]) # <<>>
                                                 /\ \A t \in Range(blob[i]) : t \notin Metadata}
  OBVIOUS
<1>10. bodies = {2}
  <2>1. 1 \notin bodies
    BY <1>2, <1>5, <1>7, <1>9
  <2>2. 2 \in bodies
    BY <1>5, <1>8, <1>9
  <2>3. \A i \in bodies : i = 1 \/ i = 2
    BY <1>5, <1>9
  <2> QED BY <2>1, <2>2, <2>3
<1>11. Min(bodies) = 2
  BY <1>10 DEF Min
<1>12. BodyOfBlob(blob) = IF bodies = {} THEN <<>> ELSE blob[Min(bodies)]
  BY <1>6, <1>9, Zenon DEF BodyOfBlob
<1> QED BY <1>5, <1>10, <1>11, <1>12

Dated == {"text", "media", "reaction", "unsent", "unreadable"}

LEMMA MacBody ==
    ASSUME WellTold, NEW db, NEW chats, NEW recent \in BOOLEAN, db = MacOf(chats, recent),
           NEW i \in DOMAIN told, NEW u, u = told[i], u.kind \in Dated, NEW row, row = db.rows[i]
    PROVE  RowBody(db, row) = WordsOf(u)
<1>1. Sayable(u) /\ u.words \in Seq(Token) /\ i \in Nat
  BY DEF WellTold, Sayable, Utterance
<1>2. DOMAIN db.rows = DOMAIN told /\ \A j \in DOMAIN told : db.rows[j] = MacRow(told[j], j, chats, recent)
  BY DEF MacOf
<1>3. row = MacRow(u, i, chats, recent)
  BY <1>2
<1>4. /\ row.text = (IF u.kind = "text" /\ ~recent THEN u.words ELSE <<>>)
      /\ u.kind = "unreadable" => row.blob = Nobody
      /\ u.kind \in {"text", "undated"} /\ recent => row.blob = TypedStream(u.words)
      /\ u.kind # "unreadable" /\ ~(u.kind \in {"text", "undated"} /\ recent) => row.blob = <<>>
      /\ row.type = (IF u.kind = "reaction" THEN 2000 ELSE IF u.kind = "removal" THEN 3000 ELSE 0)
      /\ row.about = (IF SamePlaces(u, i) = {} THEN 0 ELSE Min(SamePlaces(u, i)))
      /\ row.retracted <=> u.kind = "unsent"
  BY <1>3, MacRowIs
<1>5. CASE u.kind = "reaction"
  <2>1. IsTapback(row)
    BY <1>4, <1>5 DEF IsTapback
  <2>2. PICK j \in 1 .. (i - 1) : told[j].kind = "text" /\ told[j].with = u.with /\ told[j].words = u.words
    BY <1>5 DEF WellTold
  <2>3. PICK same : same = SamePlaces(u, i)
    OBVIOUS
  <2>4. same # {} /\ same \in SUBSET Nat
    BY <1>1, <2>2, <2>3 DEF SamePlaces
  <2>5. PICK about \in same : \A l \in same : about <= l
    BY <2>4, LeastNatural
  <2>6. Min(same) \in same
    BY <2>5 DEF Min
  <2>7. PICK a : a = row.about /\ a = Min(same) /\ a \in same
    BY <1>4, <2>3, <2>4, <2>6
  <2>8. a \in DOMAIN told /\ told[a].kind = "text" /\ told[a].words = u.words /\ a \in Nat
    <3>1. PICK n \in Nat : DOMAIN told = 1 .. n
      BY DEF WellTold
    <3>2. a \in 1 .. (i - 1) /\ told[a].kind = "text" /\ told[a].words = u.words
      BY <2>3, <2>7 DEF SamePlaces
    <3> QED BY <3>1, <3>2
  <2>9. PICK t : t = db.rows[a]
    OBVIOUS
  <2>10. t = MacRow(told[a], a, chats, recent)
    BY <1>2, <2>8, <2>9
  <2>11. /\ t.text = (IF ~recent THEN u.words ELSE <<>>)
         /\ recent => t.blob = TypedStream(u.words)
    BY <2>8, <2>10, MacRowIs
  <2>12. Speech(u.words) /\ u.words # <<>>
    BY <1>1, <1>5 DEF Sayable, Speech
  <2>13. OriginalText(db, row.about) = u.words
    <3>1. \A l \in DOMAIN told : db.rows[l].guid = l
      BY <1>2, MacRowIs
    <3>2. {l \in DOMAIN db.rows : db.rows[l].guid = a} = {a}
      BY <1>2, <2>8, <3>1
    <3>3. (CHOOSE x \in {a} : TRUE) = a
      OBVIOUS
    <3>4. OriginalText(db, a) = IF {l \in DOMAIN db.rows : db.rows[l].guid = a} = {} THEN <<>> ELSE
             IF db.rows[CHOOSE x \in {l \in DOMAIN db.rows : db.rows[l].guid = a} : TRUE].text # <<>>
             THEN db.rows[CHOOSE x \in {l \in DOMAIN db.rows : db.rows[l].guid = a} : TRUE].text
             ELSE BodyOfBlob(db.rows[CHOOSE x \in {l \in DOMAIN db.rows : db.rows[l].guid = a} : TRUE].blob)
      BY Zenon DEF OriginalText
    <3>5. OriginalText(db, a) = IF {a} = {} THEN <<>> ELSE
             IF db.rows[a].text # <<>> THEN db.rows[a].text ELSE BodyOfBlob(db.rows[a].blob)
      BY <3>2, <3>3, <3>4, Zenon
    <3>6. OriginalText(db, a) = IF t.text # <<>> THEN t.text ELSE BodyOfBlob(t.blob)
      BY <2>9, <3>5
    <3>7. CASE recent
      <4>1. BodyOfBlob(t.blob) = u.words
        BY <1>1, <2>11, <2>12, <3>7, BlobRead
      <4> QED BY <2>7, <2>11, <3>6, <3>7, <4>1
    <3>8. CASE ~recent
      BY <2>7, <2>11, <2>12, <3>6, <3>8
    <3> QED BY <3>7, <3>8
  <2> QED BY <1>5, <2>1, <2>13 DEF RowBody, WordsOf
<1>6. CASE u.kind # "reaction"
  <2>1. ~IsTapback(row) /\ RowBody(db, row) = BodyOf(row)
    <3>1. row.type = 0
      BY <1>4, <1>6 DEF Dated
    <3> QED BY <3>1 DEF IsTapback, RowBody
  <2>2. CASE u.kind = "unsent"
    BY <1>4, <2>1, <2>2 DEF BodyOf, WordsOf
  <2>3. CASE u.kind = "text"
    <3>1. Speech(u.words) /\ u.words # <<>>
      BY <1>1, <2>3 DEF Sayable, Speech
    <3>2. CASE ~recent
      BY <1>4, <2>1, <2>3, <3>1, <3>2 DEF BodyOf, WordsOf
    <3>3. CASE recent
      <4>1. row.blob = TypedStream(u.words) /\ row.text = <<>>
        BY <1>4, <2>3, <3>3
      <4>2. BodyOfBlob(row.blob) = u.words /\ row.blob # <<>>
        BY <1>1, <3>1, <4>1, BlobRead
      <4> QED BY <1>4, <2>1, <2>3, <3>1, <4>1, <4>2 DEF BodyOf, WordsOf
    <3> QED BY <3>2, <3>3
  <2>4. CASE u.kind = "media"
    BY <1>4, <2>1, <2>4 DEF BodyOf, WordsOf
  <2>5. CASE u.kind = "unreadable"
    <3>1. Nobody # <<>>
      <4>1. <<>> \in Seq(Seq(Token))
        OBVIOUS
      <4> QED BY <4>1, NothingAssumption
    <3>2. BodyOfBlob(Nobody) = <<>>
      BY DEF BodyOfBlob
    <3> QED BY <1>4, <2>1, <2>5, <3>1, <3>2 DEF BodyOf, WordsOf
  <2> QED BY <1>6, <2>2, <2>3, <2>4, <2>5 DEF Dated
<1> QED BY <1>5, <1>6

SaidWith(kinds, with) == {i \in DOMAIN told : told[i].kind \in kinds /\ told[i].with = with}

\* A database of what was said.
IsMac(db, chats, recent) ==
    /\ WellTold /\ \A i \in DOMAIN told : told[i].kind # "notice"
    /\ db = MacOf(chats, recent) /\ recent \in BOOLEAN /\ Chats(chats)
    /\ \A p : {p} \in Withs => \E c \in DOMAIN chats : chats[c] = ByNumber(p)

\* What is told with one person is in that person's chats.
LEMMA RowsOfOne ==
    ASSUME NEW db, NEW chats, NEW recent, IsMac(db, chats, recent), NEW p \in Others, {p} \in Withs,
           NEW i \in DOMAIN told
    PROVE  db.rows[i].chats \cap ChatsWith(chats, p) # {} <=> told[i].with = {p}
<1>1. PICK u : u = told[i]
  OBVIOUS
<1>2. u.with \in Withs
  BY <1>1 DEF Withs
<1>3. db.rows[i] = MacRow(u, i, chats, recent)
  BY <1>1 DEF IsMac, MacOf
<1>4. db.rows[i].chats = ChatsWith(chats, Ident(u.with))
  BY <1>3, MacRowIs DEF IsMac
<1>5. PICK c \in DOMAIN chats : chats[c] = ByNumber(p)
  BY DEF IsMac
<1>6. c \in ChatsWith(chats, p)
  BY <1>5 DEF ChatsWith, ByNumber
<1>7. \A q : Cardinality({q}) = 1 /\ Ident({q}) = q
  <2>1. TAKE q
  <2>2. Cardinality({q}) = 1
    BY FS_Singleton
  <2>3. (CHOOSE x \in {q} : TRUE) = q
    OBVIOUS
  <2> QED BY <2>2, <2>3 DEF Ident
<1>8. ASSUME u.with = {p} PROVE db.rows[i].chats \cap ChatsWith(chats, p) # {}
  BY <1>4, <1>6, <1>7, <1>8
<1>9. ASSUME NEW x \in db.rows[i].chats \cap ChatsWith(chats, p) PROVE u.with = {p}
  <2>1. Ident(u.with) = p
    BY <1>4, <1>9 DEF ChatsWith
  <2>2. WellTold
    BY DEF IsMac
  <2>3. Cardinality(u.with) > 1 \/ \E q \in Others : u.with = {q}
    BY <1>2, <2>2, WithsAre
  <2>4. CASE Cardinality(u.with) > 1
    <3>1. p = <<"group">>
      BY <2>1, <2>4 DEF Ident
    <3> QED BY <3>1, AddressesDiffer
  <2>5. CASE \E q \in Others : u.with = {q}
    BY <1>7, <2>1, <2>5
  <2> QED BY <2>3, <2>4, <2>5
<1> QED BY <1>1, <1>8, <1>9

\* What the reader asks of each row.
LEMMA RowAsked ==
    ASSUME NEW db, NEW chats, NEW recent, IsMac(db, chats, recent), NEW i \in DOMAIN told,
           NEW u, u = told[i], NEW row, row = db.rows[i]
    PROVE  /\ row.date \in Nat /\ u.at \in Nat /\ Sayable(u)
           /\ AppleMs(row.date) # 0 /\ ~IsWordless(row) <=> u.kind \in Dated
           /\ ~IsTapback(row) /\ AppleMs(row.date) = 0 <=> u.kind = "undated"
           /\ u.kind \in Dated => row.date = RawAt(u.at, recent) /\ AppleMs(row.date) = MsAt(u.at)
           /\ row.guid = i /\ row.mine = (u.by = Myself)
<1>1. Sayable(u) /\ u.at \in Nat /\ SecondsAt(u.at) < Threshold /\ u.kind \in Kinds /\ u.kind # "notice"
  BY DEF IsMac, WellTold, Sayable, Utterance
<1>2. row = MacRow(u, i, chats, recent) /\ recent \in BOOLEAN
  BY DEF IsMac, MacOf
<1>3. /\ row.guid = i /\ row.mine = (u.by = Myself)
      /\ row.date = (IF u.kind = "undated" THEN 0 ELSE RawAt(u.at, recent))
      /\ row.type = (IF u.kind = "reaction" THEN 2000 ELSE IF u.kind = "removal" THEN 3000 ELSE 0)
  BY <1>2, MacRowIs
<1>4. RawAt(u.at, recent) \in Nat /\ AppleMs(RawAt(u.at, recent)) = MsAt(u.at)
  BY <1>1, <1>2, AppleRead
<1>5. MsAt(u.at) # 0
  <2>1. MsAt(u.at) \in Nat /\ MsAt(u.at) >= Threshold /\ Threshold \in Nat
    BY <1>1, MsIs
  <2>2. Threshold > 0
    BY <1>1, ScaleAssumption DEF Threshold
  <2> QED BY <2>1, <2>2
<1>6. AppleMs(0) = 0
  <2>1. ~(0 > Threshold)
    BY ScaleAssumption DEF Threshold
  <2> QED BY <2>1 DEF AppleMs
<1>7. CASE u.kind = "undated"
  BY <1>1, <1>3, <1>6, <1>7 DEF IsTapback, IsWordless, Dated
<1>8. CASE u.kind = "removal"
  BY <1>1, <1>3, <1>4, <1>5, <1>8 DEF IsTapback, IsWordless, Dated
<1>9. CASE u.kind \in Dated
  <2>1. u.kind # "undated" /\ u.kind # "removal"
    BY <1>9 DEF Dated
  <2>2. row.date = RawAt(u.at, recent) /\ row.type \in {0, 2000}
    BY <1>3, <2>1
  <2>3. ~IsWordless(row)
    <3>1. CASE row.type = 0
      <4>1. 0 \notin 2000..3007
        OBVIOUS
      <4> QED BY <3>1, <4>1 DEF IsWordless, IsTapback
    <3>2. CASE row.type = 2000
      <4>1. 2000 \in 2000..2007
        OBVIOUS
      <4> QED BY <3>2, <4>1 DEF IsWordless
    <3> QED BY <2>2, <3>1, <3>2
  <2> QED BY <1>1, <1>3, <1>4, <1>5, <1>9, <2>1, <2>2, <2>3
<1> QED BY <1>1, <1>7, <1>8, <1>9 DEF Kinds, Dated

\* The dates of the n rows.
Dates(db, n, date) == n \in Nat /\ date \in [1 .. n -> Nat] /\ \A i \in 1 .. n : db.rows[i].date = date[i]

KeptOf(order) == {k \in DOMAIN order : told[order[k]].kind \in Dated}
DatedOf(rows) == {i \in rows : told[i].kind \in Dated}

\* What a filter of the reader's order leaves, in the order it was said.
LEMMA KeptInOrder ==
    ASSUME NEW db, NEW chats, NEW recent, IsMac(db, chats, recent),
           NEW n, NEW date, Dates(db, n, date), DOMAIN told = 1 .. n,
           NEW rows \in SUBSET (1 .. n), NEW order, InReadingOrder(date, rows, order),
           NEW kept, kept = KeptOf(order), NEW places, places = DatedOf(rows)
    PROVE  Cardinality(kept) = Cardinality(places) /\ AtPlaces(order, kept) = InOrder(places)
<1>13. n \in Nat /\ date \in [1 .. n -> Nat] /\ \A i \in 1 .. n : db.rows[i].date = date[i]
  BY DEF Dates
<1>14. /\ kept = {k \in DOMAIN order : told[order[k]].kind \in Dated}
       /\ places = {i \in rows : told[i].kind \in Dated}
  BY DEF KeptOf, DatedOf
<1> USE <1>13, <1>14
<1>1. order \in Seq(rows) /\ kept \in SUBSET DOMAIN order
  BY DEF InReadingOrder
<1>2. PICK m \in Nat : m = Cardinality(kept)
  BY <1>1, AtPlacesIs
<1>3. PICK len \in Nat : DOMAIN order = 1 .. len
  BY <1>1
<1>4. PICK s \in [1 .. m -> kept] :
         /\ s = InOrder(kept) /\ \A x, y \in 1 .. m : x < y => s[x] < s[y]
         /\ \A k \in kept : \E x \in 1 .. m : s[x] = k
  <2>1. kept \in SUBSET (1 .. len)
    BY <1>1, <1>3
  <2>2. /\ InOrder(kept) \in [1 .. m -> kept]
        /\ \A x, y \in 1 .. m : x < y => InOrder(kept)[x] < InOrder(kept)[y]
        /\ \A k \in kept : \E x \in 1 .. m : InOrder(kept)[x] = k
    BY <1>2, <2>1, PlacesInOrder
  <2> QED BY <2>2
<1>5. PICK f : f = AtPlaces(order, kept)
  OBVIOUS
<1>6. f = [x \in 1 .. m |-> order[s[x]]]
  BY <1>2, <1>4, <1>5 DEF AtPlaces
<1>7. \A k \in kept : order[k] \in places
  BY <1>1
<1>8. f \in [1 .. m -> places]
  BY <1>4, <1>6, <1>7
<1>9. ASSUME NEW x \in 1 .. m, NEW y \in 1 .. m, x < y PROVE f[x] < f[y]
  <2>1. PICK k \in kept, l \in kept : k = s[x] /\ l = s[y]
    BY <1>4
  <2>2. k < l /\ f[x] = order[k] /\ f[y] = order[l] /\ k \in DOMAIN order /\ l \in DOMAIN order
    BY <1>1, <1>4, <1>6, <1>9, <2>1
  <2>3. PICK i \in places, j \in places : i = order[k] /\ j = order[l]
    BY <1>7
  <2>4. date[i] < date[j] \/ (date[i] = date[j] /\ i < j)
    BY <2>2, <2>3 DEF InReadingOrder
  <2>5. i \in 1 .. n /\ j \in 1 .. n /\ told[i].kind \in Dated /\ told[j].kind \in Dated
    OBVIOUS
  <2>6. SUFFICES ASSUME ~(i < j), date[i] < date[j] PROVE FALSE
    BY <2>2, <2>3, <2>4
  <2>12. i \in DOMAIN told /\ j \in DOMAIN told
    BY <2>5
  <2>13. told[i].at \in Nat /\ told[j].at \in Nat
    BY <2>12, RowAsked
  <2>7. PICK g \in Nat, h \in Nat : g = told[i].at /\ h = told[j].at
    BY <2>13
  <2>8. h <= g
    <3>1. j < i \/ j = i
      BY <2>5, <2>6
    <3>2. CASE j < i
      BY <2>5, <2>7, <3>2 DEF IsMac, WellTold
    <3>3. CASE j = i
      BY <2>7, <3>3
    <3> QED BY <3>1, <3>2, <3>3
  <2>9. date[i] = RawAt(g, recent) /\ date[j] = RawAt(h, recent) /\ recent \in BOOLEAN
    <3>1. recent \in BOOLEAN
      BY DEF IsMac
    <3>2. \A z \in DOMAIN told : told[z].kind \in Dated => db.rows[z].date = RawAt(told[z].at, recent)
      <4>1. TAKE z \in DOMAIN told
      <4>2. PICK u, row : u = told[z] /\ row = db.rows[z]
        OBVIOUS
      <4>3. u.kind \in Dated => row.date = RawAt(u.at, recent)
        BY <4>2, RowAsked
      <4> QED BY <4>2, <4>3
    <3>3. date[i] = db.rows[i].date /\ date[j] = db.rows[j].date
      BY <2>5
    <3> QED BY <2>7, <3>1, <3>2, <3>3
  <2>10. date[j] <= date[i]
    BY <2>8, <2>9, RawGrows
  <2>11. date[i] \in Nat /\ date[j] \in Nat
    BY <2>5
  <2> QED BY <2>6, <2>10, <2>11
<1>10. ASSUME NEW i \in places PROVE \E x \in 1 .. m : f[x] = i
  <2>1. PICK k \in DOMAIN order : order[k] = i
    BY DEF InReadingOrder
  <2>2. k \in kept
    BY <2>1
  <2> QED BY <1>4, <1>6, <2>1, <2>2
<1>11. places \in SUBSET Nat
  <2>1. \A i \in places : i \in 1 .. n
    OBVIOUS
  <2>2. \A i \in 1 .. n : i \in Nat
    OBVIOUS
  <2> QED BY <2>1, <2>2
<1>12. Cardinality(places) = m /\ InOrder(places) = f
  BY <1>8, <1>9, <1>10, <1>11, IncreasingIsInOrder
<1> QED BY <1>2, <1>5, <1>12

\* Those that a filter counts are as many as there are.
LEMMA CountedAlike ==
    ASSUME NEW n \in Nat, NEW date \in [1 .. n -> Nat], NEW rows \in SUBSET (1 .. n), NEW order, InReadingOrder(date, rows, order),
           NEW U \in SUBSET rows, NEW S, S = {k \in DOMAIN order : order[k] \in U}
    PROVE  Cardinality(S) = Cardinality(U)
<1>1. order \in Seq(rows) /\ \A i \in rows : \E k \in DOMAIN order : order[k] = i
  BY DEF InReadingOrder
<1>2. PICK len \in Nat : DOMAIN order = 1 .. len
  BY <1>1
<1>3. IsFiniteSet(S) /\ IsFiniteSet(U)
  <2>1. S \in SUBSET (1 .. len) /\ U \in SUBSET (1 .. n)
    BY <1>2
  <2> QED BY <2>1, PlacesInOrder
<1>4. PICK f : f = [k \in S |-> order[k]]
  OBVIOUS
<1>5. DOMAIN f = S /\ \A k \in S : f[k] \in U /\ f[k] = order[k]
  BY <1>4
<1>6. \A k, l \in S : f[k] = f[l] => k = l
  <2>1. SUFFICES ASSUME NEW k \in S, NEW l \in S, f[k] = f[l], k # l PROVE FALSE
    OBVIOUS
  <2>2. k \in DOMAIN order /\ l \in DOMAIN order /\ order[k] = order[l] /\ order[k] \in rows
    BY <1>5, <2>1
  <2>3. k < l \/ l < k
    BY <1>2, <2>1, <2>2
  <2>4. date[order[k]] < date[order[k]] \/ order[k] < order[k]
    BY <2>2, <2>3 DEF InReadingOrder
  <2>5. order[k] \in Nat /\ date[order[k]] \in Nat
    <3>1. PICK i \in 1 .. n : i = order[k]
      BY <2>2
    <3>2. i \in Nat /\ date[i] \in Nat
      OBVIOUS
    <3> QED BY <3>1, <3>2
  <2> QED BY <2>4, <2>5
<1>7. Cardinality(S) <= Cardinality(U)
  BY <1>3, <1>5, <1>6, OneEach
<1>8. Cardinality(U) <= Cardinality(S)
  <2>1. IsFiniteSet({f[k] : k \in S}) /\ Cardinality({f[k] : k \in S}) <= Cardinality(S)
    BY <1>3, <1>5, FiniteImage
  <2>2. {f[k] : k \in S} = U
    <3>1. \A i \in U : \E k \in S : f[k] = i
      BY <1>1, <1>5
    <3> QED BY <1>5, <3>1
  <2> QED BY <2>1, <2>2
<1>9. Cardinality(S) \in Nat /\ Cardinality(U) \in Nat
  BY <1>3, FS_CardinalityType
<1> QED BY <1>7, <1>8, <1>9

\* The rows of a conversation with one person, in order.
LEMMA MacOrder ==
    ASSUME NEW db, NEW chats, NEW recent, IsMac(db, chats, recent), NEW p \in Others, {p} \in Withs,
           NEW order, order = ReadRows(db, ChatsWith(chats, p)),
           NEW places, places = SaidWith(Dated, {p}), NEW lost, lost = SaidWith({"undated"}, {p})
    PROVE  /\ Cardinality(Recorded(db, order)) = Cardinality(places)
           /\ AtPlaces(order, Recorded(db, order)) = InOrder(places)
           /\ Cardinality(Undated(db, order)) = Cardinality(lost)
           /\ InOrder(places) \in [1 .. Cardinality(places) -> DOMAIN told] /\ Cardinality(places) \in Nat
           /\ \A k \in 1 .. Cardinality(places) :
                 told[InOrder(places)[k]].kind \in Dated /\ told[InOrder(places)[k]].with = {p}
<1>1. told \in Seq(Utterance) /\ db = MacOf(chats, recent)
  BY DEF IsMac, WellTold
<1>2. PICK n \in Nat : DOMAIN told = 1 .. n
  BY <1>1
<1>3. DOMAIN db.rows = 1 .. n
  BY <1>1, <1>2 DEF MacOf
<1>4. PICK date : date = [i \in 1 .. n |-> db.rows[i].date]
  OBVIOUS
<1>5. \A i \in 1 .. n : db.rows[i].date = date[i] /\ date[i] \in Nat
  <2>1. TAKE i \in 1 .. n
  <2>2. PICK u, row : u = told[i] /\ row = db.rows[i]
    OBVIOUS
  <2>3. row.date \in Nat
    BY <1>2, <2>2, RowAsked
  <2> QED BY <1>4, <2>2, <2>3
<1>6. date \in [1 .. n -> Nat]
  BY <1>4, <1>5
<1>7. PICK rows : rows = {i \in 1 .. n : db.rows[i].chats \cap ChatsWith(chats, p) # {}}
  OBVIOUS
<1>8. InReadingOrder(date, rows, order)
  BY <1>3, <1>5, <1>6, <1>7, MacRowsRead
<1>9. \A i \in 1 .. n : i \in rows <=> told[i].with = {p}
  BY <1>2, <1>7, RowsOfOne
<1>10. rows \in SUBSET (1 .. n)
  BY <1>7
<1>11. /\ places = {i \in rows : told[i].kind \in Dated} /\ lost = {i \in rows : told[i].kind = "undated"}
  BY <1>2, <1>9, <1>10 DEF SaidWith
<1>12. order \in Seq(rows) /\ DOMAIN order \in SUBSET Nat
  BY <1>8 DEF InReadingOrder
<1>13. \A k \in DOMAIN order :
          /\ AppleMs(db.rows[order[k]].date) # 0 /\ ~IsWordless(db.rows[order[k]]) <=> told[order[k]].kind \in Dated
          /\ ~IsTapback(db.rows[order[k]]) /\ AppleMs(db.rows[order[k]].date) = 0 <=> told[order[k]].kind = "undated"
  <2>1. TAKE k \in DOMAIN order
  <2>2. PICK i \in rows : i = order[k]
    BY <1>12
  <2>3. PICK u, row : u = told[i] /\ row = db.rows[i]
    OBVIOUS
  <2>4. /\ AppleMs(row.date) # 0 /\ ~IsWordless(row) <=> u.kind \in Dated
        /\ ~IsTapback(row) /\ AppleMs(row.date) = 0 <=> u.kind = "undated"
    BY <1>2, <1>10, <2>3, RowAsked
  <2> QED BY <2>2, <2>3, <2>4
<1>14. Recorded(db, order) = {k \in DOMAIN order : told[order[k]].kind \in Dated}
  BY <1>13 DEF Recorded
<1>15. Undated(db, order) = {k \in DOMAIN order : told[order[k]].kind = "undated"}
  BY <1>13 DEF Undated
<1>16. /\ Cardinality(Recorded(db, order)) = Cardinality(places)
       /\ AtPlaces(order, Recorded(db, order)) = InOrder(places)
  <2>1. PICK kept : kept = Recorded(db, order)
    OBVIOUS
  <2>2. kept = KeptOf(order)
    BY <1>14, <2>1 DEF KeptOf
  <2>3. places = DatedOf(rows)
    BY <1>11 DEF DatedOf
  <2>4. \A i \in 1 .. n : db.rows[i].date = date[i]
    BY <1>5
  <2>6. Dates(db, n, date)
    BY <1>6, <2>4 DEF Dates
  <2>5. Cardinality(kept) = Cardinality(places) /\ AtPlaces(order, kept) = InOrder(places)
    BY ONLY IsMac(db, chats, recent), <1>2, <1>8, <1>10, <2>2, <2>3, <2>6, KeptInOrder
  <2> QED BY <2>1, <2>5
<1>17. Cardinality(Undated(db, order)) = Cardinality(lost)
  <2>1. lost \in SUBSET rows
    BY <1>11
  <2>2. Undated(db, order) = {k \in DOMAIN order : order[k] \in lost}
    <3>1. \A k \in DOMAIN order : order[k] \in rows
      BY <1>12
    <3>2. \A k \in DOMAIN order : told[order[k]].kind = "undated" <=> order[k] \in lost
      BY <1>11, <3>1
    <3> QED BY <1>15, <3>2
  <2>3. PICK gone : gone = Undated(db, order)
    OBVIOUS
  <2>4. gone = {k \in DOMAIN order : order[k] \in lost}
    BY <2>2, <2>3
  <2>5. Cardinality(gone) = Cardinality(lost)
    BY ONLY n \in Nat, <1>6, <1>8, <1>10, <2>1, <2>4, CountedAlike
  <2> QED BY <2>3, <2>5
<1>18. places \in SUBSET (1 .. n)
  BY <1>10, <1>11
<1>19. Cardinality(places) \in Nat /\ InOrder(places) \in [1 .. Cardinality(places) -> places]
  <2>1. PICK P \in SUBSET (1 .. n) : P = places
    BY <1>18
  <2>2. Cardinality(P) \in Nat /\ InOrder(P) \in [1 .. Cardinality(P) -> P]
    BY ONLY n \in Nat, P \in SUBSET (1 .. n), PlacesInOrder
  <2> QED BY <2>1, <2>2
<1>20. PICK m, s : m = Cardinality(places) /\ s = InOrder(places)
  OBVIOUS
<1>21. \A k \in 1 .. m : s[k] \in places
  BY <1>19, <1>20
<1>22. \A i \in places : told[i].kind \in Dated /\ told[i].with = {p} /\ i \in DOMAIN told
  BY DEF SaidWith
<1>23. s \in [1 .. m -> DOMAIN told]
  BY <1>19, <1>20, <1>22
<1> QED BY <1>16, <1>17, <1>19, <1>20, <1>21, <1>22, <1>23

\* A row that is recorded answers what was said.
LEMMA MacRecordIs ==
    ASSUME NEW db, NEW chats, NEW recent, IsMac(db, chats, recent), NEW p \in Others, NEW i \in DOMAIN told,
           told[i].kind \in Dated, NEW row, row = db.rows[i], NEW r,
           r = Sms(IF row.mine THEN 2 ELSE 1, AppleMs(row.date), <<"number", p, "plain">>, RowBody(db, row), row.guid)
    PROVE  /\ AnswersTo(NormalizeSms(r), told[i]) /\ NormalizeSms(r).addresses = NumbersOf({p})
           /\ NormalizeSms(r).at = MsAt(told[i].at)
<1>1. PICK u : u = told[i]
  OBVIOUS
<1>2. Sayable(u) /\ u.at \in Nat /\ row.mine = (u.by = Myself) /\ AppleMs(row.date) = MsAt(u.at)
  BY <1>1, RowAsked
<1>3. RowBody(db, row) = WordsOf(u)
  <2>1. WellTold /\ recent \in BOOLEAN /\ db = MacOf(chats, recent)
    BY DEF IsMac
  <2> QED BY <1>1, <2>1, MacBody
<1>4. PICK a : a = <<"number", p, "plain">>
  OBVIOUS
<1>5. a # Nobody /\ E164(a) = <<"number", p>>
  <2>1. a \in {"number"} \X Names \X {"plain", "international"}
    BY <1>4 DEF Names
  <2>2. a # Nobody
    BY <2>1, NothingAssumption
  <2> QED BY <1>4, <2>2 DEF E164
<1>6. /\ r.type = (IF u.by = Myself THEN 2 ELSE 1) /\ r.body = WordsOf(u) /\ r.address = a
      /\ r.date = MsAt(u.at)
  BY <1>2, <1>3, <1>4 DEF Sms
<1>7. /\ AnswersTo(NormalizeSms(r), u) /\ NormalizeSms(r).addresses = {E164(a)}
      /\ NormalizeSms(r).at = ToMs(r.date)
  BY <1>2, <1>5, <1>6, SmsAnswers
<1>8. ToMs(MsAt(u.at)) = MsAt(u.at)
  BY <1>2, MsKept
<1>9. {E164(a)} = NumbersOf({p})
  BY <1>5 DEF NumbersOf
<1> QED BY <1>1, <1>6, <1>7, <1>8, <1>9

\* What the reader of the database gives of the conversation with p.
MacRecords(db, p, order, kept) ==
    [k \in DOMAIN kept |->
        Sms(IF db.rows[kept[k]].mine THEN 2 ELSE 1, AppleMs(db.rows[kept[k]].date),
            <<"number", p, "plain">>, RowBody(db, db.rows[kept[k]]), db.rows[kept[k]].guid)]

LEMMA MacIs ==
    ASSUME NEW db, NEW want, NEW r, r = ParseIMessage(db, want), r.refused = Nobody,
           NEW chosen, chosen = PickConversation(ConversationsIn(db), want),
           NEW c, c = CHOOSE x \in chosen : TRUE,
           NEW order, order = ReadRows(db, c.chats)
    PROVE  /\ chosen # {} /\ ~c.isGroup /\ r.undated = Cardinality(Undated(db, order))
           /\ r.records = MacRecords(db, c.handles[1], order, AtPlaces(order, Recorded(db, order)))
<1>1. "conversation" # Nobody /\ "group" # Nobody
  BY NothingAssumption
<1>2. r = IF chosen = {} \/ c.handles = <<>> THEN [refused |-> "conversation"]
          ELSE IF c.isGroup THEN [refused |-> "group"]
          ELSE [refused |-> Nobody, undated |-> Cardinality(Undated(db, order)),
                records |-> MacRecords(db, c.handles[1], order, AtPlaces(order, Recorded(db, order)))]
  BY ZenonT(60) DEF ParseIMessage, MacRecords
<1>3. ~(chosen = {} \/ c.handles = <<>>)
  BY <1>1, <1>2
<1>4. ~c.isGroup
  BY <1>1, <1>2, <1>3
<1> QED BY <1>2, <1>3, <1>4

\* What is recorded of a database: the conversation with p.
MacKept(r, chosen, want, p) ==
    /\ {p} \in Withs /\ Meant(want) = {p} /\ chosen # {} /\ (CHOOSE x \in chosen : TRUE).ident = p
    /\ r.undated = Cardinality(SaidWith({"undated"}, {p}))
    /\ Cardinality(SaidWith(Dated, {p})) \in Nat
    /\ DOMAIN r.records = 1 .. Cardinality(SaidWith(Dated, {p}))
    /\ InOrder(SaidWith(Dated, {p})) \in [1 .. Cardinality(SaidWith(Dated, {p})) -> DOMAIN told]
    /\ \A k \in 1 .. Cardinality(SaidWith(Dated, {p})) :
          /\ AnswersTo(NormalizeSms(r.records[k]), told[InOrder(SaidWith(Dated, {p}))[k]])
          /\ NormalizeSms(r.records[k]).addresses = NumbersOf({p})
          /\ NormalizeSms(r.records[k]).at = MsAt(told[InOrder(SaidWith(Dated, {p}))[k]].at)

\* A database, imported.
LEMMA MacImported ==
    ASSUME WellTold, \A i \in DOMAIN told : told[i].kind # "notice", NEW groupFirst \in BOOLEAN, NEW recent \in BOOLEAN,
           NEW db, db = MacOf(MacChats(groupFirst), recent), NEW want \in Wishes,
           NEW r, r = ParseIMessage(db, want), r.refused = Nobody,
           NEW chosen, chosen = PickConversation(ConversationsIn(db), want)
    PROVE  \E p \in Others : MacKept(r, chosen, want, p)
<1>1. PICK c : c = CHOOSE x \in chosen : TRUE
  OBVIOUS
<1>2. PICK order : order = ReadRows(db, c.chats)
  OBVIOUS
<1>3. /\ chosen # {} /\ ~c.isGroup /\ r.undated = Cardinality(Undated(db, order))
      /\ r.records = MacRecords(db, c.handles[1], order, AtPlaces(order, Recorded(db, order)))
  BY <1>1, <1>2, MacIs
<1>4. PICK chats : chats = MacChats(groupFirst)
  OBVIOUS
<1>5. db.chats = chats /\ db = MacOf(chats, recent)
  BY <1>4 DEF MacOf
<1>6. PICK p \in Others :
         /\ {p} \in Withs /\ Meant(want) = {p} /\ c.ident = p
         /\ c.chats = ChatsWith(chats, p) /\ c.handles[1] = p
  <2>1. db.chats = MacChats(groupFirst)
    BY <1>4, <1>5
  <2>2. \E p \in Others : Picks(db.chats, want, c, p)
    BY ONLY WellTold, groupFirst \in BOOLEAN, <2>1, want \in Wishes, <1>1, <1>3,
            chosen = PickConversation(ConversationsIn(db), want), OnePicked
  <2> QED BY <1>5, <2>2 DEF Picks
<1>7. IsMac(db, chats, recent)
  <2>1. /\ Chats(chats) /\ \A q : {q} \in Withs => \E x \in DOMAIN chats : chats[x] = ByNumber(q)
    BY <1>4, ChatsAre
  <2> QED BY <1>5, <2>1 DEF IsMac
<1>8. PICK places, lost : places = SaidWith(Dated, {p}) /\ lost = SaidWith({"undated"}, {p})
  OBVIOUS
<1>9. order = ReadRows(db, ChatsWith(chats, p))
  BY <1>2, <1>6
<1>10. /\ AtPlaces(order, Recorded(db, order)) = InOrder(places)
       /\ Cardinality(Undated(db, order)) = Cardinality(lost)
       /\ InOrder(places) \in [1 .. Cardinality(places) -> DOMAIN told] /\ Cardinality(places) \in Nat
       /\ \A k \in 1 .. Cardinality(places) : told[InOrder(places)[k]].kind \in Dated
  BY <1>6, <1>7, <1>8, <1>9, MacOrder
<1>11. PICK s, m : s = InOrder(places) /\ m = Cardinality(places)
  OBVIOUS
<1>12. s \in [1 .. m -> DOMAIN told] /\ m \in Nat /\ \A k \in 1 .. m : told[s[k]].kind \in Dated
  BY <1>10, <1>11
<1>13. r.records = MacRecords(db, p, order, s)
  BY <1>3, <1>6, <1>10, <1>11
<1>14. /\ DOMAIN r.records = 1 .. m
       /\ \A k \in 1 .. m : r.records[k] =
             Sms(IF db.rows[s[k]].mine THEN 2 ELSE 1, AppleMs(db.rows[s[k]].date),
                 <<"number", p, "plain">>, RowBody(db, db.rows[s[k]]), db.rows[s[k]].guid)
  BY <1>12, <1>13 DEF MacRecords
<1>15. ASSUME NEW k \in 1 .. m
       PROVE  /\ AnswersTo(NormalizeSms(r.records[k]), told[s[k]])
              /\ NormalizeSms(r.records[k]).addresses = NumbersOf({p})
              /\ NormalizeSms(r.records[k]).at = MsAt(told[s[k]].at)
  <2>1. PICK i \in DOMAIN told : i = s[k]
    BY <1>12
  <2>2. told[i].kind \in Dated
    BY <1>12, <2>1
  <2>3. PICK row, rec : row = db.rows[i] /\ rec = r.records[k]
    OBVIOUS
  <2>4. rec = Sms(IF row.mine THEN 2 ELSE 1, AppleMs(row.date), <<"number", p, "plain">>, RowBody(db, row), row.guid)
    BY <1>14, <2>1, <2>3
  <2>5. /\ AnswersTo(NormalizeSms(rec), told[i]) /\ NormalizeSms(rec).addresses = NumbersOf({p})
        /\ NormalizeSms(rec).at = MsAt(told[i].at)
    BY <1>7, <2>2, <2>3, <2>4, MacRecordIs
  <2> QED BY <2>1, <2>3, <2>5
<1>16. MacKept(r, chosen, want, p)
  BY <1>1, <1>3, <1>6, <1>8, <1>10, <1>11, <1>12, <1>14, <1>15 DEF MacKept
<1> QED BY <1>16

-----------------------------------------------------------------------------
(* What is at hand, and what was recorded: the invariant *)

\* The file at hand is an export of what was said.
ChatOffered(with, order, twelve) ==
    /\ Heard(Among({"text", "media", "notice"}, {with}), with)
    /\ offered = <<"whatsapp", ChatOf(Among({"text", "media", "notice"}, {with}), order, twelve)>>
    /\ of = [NoFile EXCEPT !.with = with, !.form = order]

RowsOffered(with, form, names, sides) ==
    /\ Heard(Among({"text", "undated"}, {with}), with)
    /\ offered = <<"rows", RowsOf(Among({"text", "undated"}, {with}), form, names, sides)>>
    /\ of = [with |-> with, form |-> form, names |-> names, sides |-> sides]

BackupOffered(listed, whole) ==
    offered = <<"backup", [elements |-> ElementsOf(Among({"text", "media", "reaction"}, Withs), listed), whole |-> whole]>>

MacOffered(groupFirst, recent) ==
    /\ \A i \in DOMAIN told : told[i].kind # "notice"
    /\ offered = <<"chatdb", MacOf(MacChats(groupFirst), recent)>>

Offer ==
    \/ \E with \in Withs, order \in Orders, twelve \in BOOLEAN : ChatOffered(with, order, twelve)
    \/ \E with \in Withs, form \in Forms, names \in {"all", "none", "theirs"}, sides \in BOOLEAN :
          RowsOffered(with, form, names, sides)
    \/ \E listed, whole \in BOOLEAN : BackupOffered(listed, whole)
    \/ \E groupFirst, recent \in BOOLEAN : MacOffered(groupFirst, recent)

\* By what an import is known.
SourceOf(d) == <<d.source, IF d.source[1] = "chatdb" THEN CHOOSE p \in d.u.with : TRUE ELSE Nobody>>

\* Counterparts, by number or by name; in rows without a name, by the file.
ByTheirNumbers(r, d) ==
    d.source[1] \in {"backup", "chatdb"} /\ ~d.split /\ r.addresses \ Own = NumbersOf(d.u.with)

ByTheirName(r, d) ==
    d.source[1] = "whatsapp" /\ ~d.split /\ \E p \in d.u.with : d.u.with = {p} /\ r.addresses = {<<"alias", p>>}

ByRows(r, d) ==
    /\ d.source = <<"rows", d.source[2]>>
    /\ d.split \/ \E who \in d.u.with \cup {<<"unnamed", d.source[2]>>} :
                     /\ d.u.with = {who} \/ (who = <<"unnamed", d.source[2]>> /\ d.source[2] \in Texts)
                     /\ r.addresses = {<<"alias", who>>}

\* Record r is what d says that it should be.
IsDue(r, d) ==
    /\ d.u.with # {} /\ d.u.with \in SUBSET Others
    /\ AnswersTo(r, d.u) /\ (d.sure => r.at = MsAt(d.u.at))
    /\ ByTheirNumbers(r, d) \/ ByTheirName(r, d) \/ ByRows(r, d)

\* The rows of a file are of one conversation.
RowsAlike(rs, ds) ==
    \A i, j \in DOMAIN ds : ds[i].source[1] = "rows" /\ ds[i].source = ds[j].source =>
        /\ ds[i].u.with = ds[j].u.with /\ ds[i].split = ds[j].split
        /\ ~ds[i].split => rs[i].addresses = rs[j].addresses

Same(ds, d) == {j \in DOMAIN ds : ds[j].u = d.u /\ ds[j].source = d.source}
Occurrences(u) == {k \in DOMAIN told : told[k] = u}

FormatsInv ==
    /\ WellTold
    /\ offered # Nobody => Offer
    /\ records \in Seq(Range(records)) /\ due \in Seq(Range(due)) /\ Len(records) = Len(due)
    /\ \A i \in DOMAIN due : IsDue(records[i], due[i]) /\ SourceOf(due[i]) \in seen
    /\ RowsAlike(records, due)
    /\ \A i \in DOMAIN due : Cardinality(Same(due, due[i])) <= Cardinality(Occurrences(due[i].u))
    /\ MissingIsCounted

\* j is s and then t.
IsJoin(s, t, j) ==
    /\ j \in Seq(Range(j)) /\ DOMAIN j = 1 .. (Len(s) + Len(t)) /\ Len(j) = Len(s) + Len(t)
    /\ Len(s) \in Nat /\ Len(t) \in Nat /\ DOMAIN s = 1 .. Len(s) /\ DOMAIN t = 1 .. Len(t)
    /\ \A i \in 1 .. Len(s) : j[i] = s[i] /\ i \in DOMAIN j
    /\ \A k \in 1 .. Len(t) : j[Len(s) + k] = t[k] /\ Len(s) + k \in DOMAIN j
    /\ \A i \in DOMAIN j : i \in 1 .. Len(s) \/ \E k \in 1 .. Len(t) : i = Len(s) + k

LEMMA JoinIs ==
    ASSUME NEW s, NEW t, s \in Seq(Range(s)), t \in Seq(Range(t))
    PROVE  IsJoin(s, t, s \o t)
<1>1. PICK M : M = Range(s) \cup Range(t)
  OBVIOUS
<1>2. s \in Seq(M) /\ t \in Seq(M)
  BY <1>1
<1>3. PICK m \in Nat, n \in Nat : m = Len(s) /\ n = Len(t) /\ DOMAIN s = 1 .. m /\ DOMAIN t = 1 .. n
  BY <1>2
<1>4. PICK j : j = s \o t
  OBVIOUS
<1>5. /\ j \in Seq(M) /\ Len(j) = m + n /\ DOMAIN j = 1 .. (m + n)
      /\ \A i \in 1 .. (m + n) : j[i] = IF i <= m THEN s[i] ELSE t[i - m]
  BY <1>2, <1>3, <1>4
<1>6. j \in Seq(Range(j))
  <2>1. \A i \in DOMAIN j : j[i] \in Range(j)
    BY DEF Range
  <2>2. \A i \in 1 .. (m + n) : j[i] \in Range(j)
    BY <1>5, <2>1
  <2> QED BY <1>5, <2>2
<1>7. \A i \in 1 .. m : j[i] = s[i] /\ i \in DOMAIN j
  BY <1>5
<1>8. \A k \in 1 .. n : j[m + k] = t[k] /\ m + k \in DOMAIN j
  <2>1. TAKE k \in 1 .. n
  <2>2. m + k \in 1 .. (m + n) /\ ~(m + k <= m) /\ (m + k) - m = k
    OBVIOUS
  <2> QED BY <1>5, <2>2
<1>9. \A i \in DOMAIN j : i \in 1 .. m \/ \E k \in 1 .. n : i = m + k
  <2>1. TAKE i \in DOMAIN j
  <2>2. i \in 1 .. (m + n)
    BY <1>5
  <2>3. CASE i <= m
    BY <2>2, <2>3
  <2>4. CASE ~(i <= m)
    <3>1. i - m \in 1 .. n /\ i = m + (i - m)
      BY <2>2, <2>4
    <3> QED BY <3>1
  <2> QED BY <2>3, <2>4
<1> QED BY <1>3, <1>4, <1>5, <1>6, <1>7, <1>8, <1>9 DEF IsJoin

\* What is said comes after what was said, and reacts to it.
LEMMA SayKeepsTold ==
    ASSUME WellTold, NEW u \in Utterances, Say(u)
    PROVE  WellTold'
<1>1. Sayable(u) /\ u \in Utterance /\ u.at \in Nat
  BY UtterancesAssumption DEF Sayable, Utterance
<1>2. PICK n \in Nat : n = Len(told) /\ DOMAIN told = 1 .. n /\ told \in Seq(Utterance)
  BY DEF WellTold
<1>3. PICK t : t = Append(told, u)
  OBVIOUS
<1>4. /\ t \in Seq(Utterance) /\ DOMAIN t = 1 .. (n + 1) /\ t[n + 1] = u
      /\ \A i \in 1 .. n : t[i] = told[i]
  BY <1>1, <1>2, <1>3
<1>5. told' = t
  BY <1>3 DEF Say
<1>6. \A i \in 1 .. (n + 1) : Sayable(t[i])
  <2>1. TAKE i \in 1 .. (n + 1)
  <2>2. i \in 1 .. n \/ i = n + 1
    OBVIOUS
  <2>3. CASE i \in 1 .. n
    BY <1>2, <1>4, <2>3 DEF WellTold
  <2> QED BY <1>1, <1>4, <2>2, <2>3
<1>7. \A i \in 1 .. n : told[i].at \in Nat /\ told[i].at <= u.at
  <2>1. TAKE i \in 1 .. n
  <2>2. told[i].at \in Nat /\ told[n].at \in Nat /\ n \in 1 .. n
    <3>1. told[i] \in Utterance /\ n \in 1 .. n
      BY <1>2
    <3>2. told[n] \in Utterance
      BY <1>2, <3>1
    <3> QED BY <3>1, <3>2 DEF Utterance
  <2>3. told[n].at <= u.at
    <3>1. told # <<>>
      BY <1>2
    <3>2. Last(told) = told[n]
      BY <1>2 DEF Last
    <3> QED BY <3>1, <3>2 DEF Say
  <2>4. i < n \/ i = n
    OBVIOUS
  <2>5. told[i].at <= told[n].at
    BY <1>2, <2>2, <2>4 DEF WellTold
  <2> QED BY <1>1, <2>2, <2>3, <2>5
<1>8. \A i, j \in 1 .. (n + 1) : i < j => t[i].at <= t[j].at
  <2>1. SUFFICES ASSUME NEW i \in 1 .. (n + 1), NEW j \in 1 .. (n + 1), i < j PROVE t[i].at <= t[j].at
    OBVIOUS
  <2>2. i \in 1 .. n
    BY <2>1
  <2>3. CASE j = n + 1
    BY <1>4, <1>7, <2>2, <2>3
  <2>4. CASE j \in 1 .. n
    BY <1>2, <1>4, <2>1, <2>2, <2>4 DEF WellTold
  <2> QED BY <2>3, <2>4
<1>9. \A i \in 1 .. (n + 1) : t[i].kind = "reaction" =>
          \E j \in 1 .. (i - 1) : t[j].kind = "text" /\ t[j].with = t[i].with /\ t[j].words = t[i].words
  <2>1. SUFFICES ASSUME NEW i \in 1 .. (n + 1), t[i].kind = "reaction"
                 PROVE  \E j \in 1 .. (i - 1) : t[j].kind = "text" /\ t[j].with = t[i].with /\ t[j].words = t[i].words
    OBVIOUS
  <2>2. CASE i \in 1 .. n
    <3>1. PICK j \in 1 .. (i - 1) : told[j].kind = "text" /\ told[j].with = told[i].with /\ told[j].words = told[i].words
      BY <1>2, <1>4, <2>1, <2>2 DEF WellTold
    <3>2. j \in 1 .. n
      BY <2>2
    <3> QED BY <1>4, <2>2, <3>1, <3>2
  <2>3. CASE i = n + 1
    <3>1. u.kind = "reaction"
      BY <1>4, <2>1, <2>3
    <3>2. PICK j \in DOMAIN told : told[j] = [u EXCEPT !.kind = "text", !.by = told[j].by, !.at = told[j].at]
      BY <3>1 DEF Say
    <3>3. told[j].kind = "text" /\ told[j].with = u.with /\ told[j].words = u.words
      BY <1>1, <3>2 DEF Utterance
    <3>4. j \in 1 .. n /\ j \in 1 .. (i - 1)
      BY <1>2, <2>3
    <3> QED BY <1>4, <2>3, <3>3, <3>4
  <2> QED BY <2>2, <2>3
<1> QED BY <1>4, <1>5, <1>6, <1>8, <1>9 DEF WellTold

LEMMA ExportOffers ==
    ASSUME Export
    PROVE  Offer' /\ told' = told
<1>1. told' = told
  BY DEF Export, ExportChat, ExportRows, ExportBackup, ExportMac, Offered
<1>2. Withs' = Withs
  BY <1>1 DEF Withs
<1>3. ASSUME NEW with \in Withs, NEW order \in Orders, NEW twelve \in BOOLEAN, ExportChat(with, order, twelve)
      PROVE  ChatOffered(with, order, twelve)'
  <2>1. PICK talk : talk = Among({"text", "media", "notice"}, {with})
    OBVIOUS
  <2>2. talk = Among({"text", "media", "notice"}, {with})'
    BY <1>1, <2>1 DEF Among
  <2> QED BY <1>3, <2>1, <2>2 DEF ExportChat, Offered, ChatOffered
<1>4. ASSUME NEW with \in Withs, NEW form \in Forms, NEW names \in {"all", "none", "theirs"}, NEW sides \in BOOLEAN,
             ExportRows(with, form, names, sides)
      PROVE  RowsOffered(with, form, names, sides)'
  <2>1. PICK talk : talk = Among({"text", "undated"}, {with})
    OBVIOUS
  <2>2. talk = Among({"text", "undated"}, {with})'
    BY <1>1, <2>1 DEF Among
  <2> QED BY <1>4, <2>1, <2>2 DEF ExportRows, Offered, RowsOffered
<1>5. ASSUME NEW listed \in BOOLEAN, NEW whole \in BOOLEAN, ExportBackup(listed, whole)
      PROVE  BackupOffered(listed, whole)'
  <2>1. PICK talk : talk = Among({"text", "media", "reaction"}, Withs)
    OBVIOUS
  <2>2. talk = Among({"text", "media", "reaction"}, Withs)'
    BY <1>1, <1>2, <2>1 DEF Among
  <2> QED BY <1>5, <2>1, <2>2 DEF ExportBackup, Offered, BackupOffered
<1>6. ASSUME NEW groupFirst \in BOOLEAN, NEW recent \in BOOLEAN, ExportMac(groupFirst, recent)
      PROVE  MacOffered(groupFirst, recent)'
  <2>1. MacChats(groupFirst)' = MacChats(groupFirst)
    BY <1>2 DEF MacChats
  <2>2. \A u, i, chats : MacRow(u, i, chats, recent)' = MacRow(u, i, chats, recent)
    BY <1>1 DEF MacRow
  <2>3. PICK chats : chats = MacChats(groupFirst)
    OBVIOUS
  <2>4. MacOf(chats, recent)' = MacOf(chats, recent)
    BY <1>1, <2>2 DEF MacOf
  <2>5. MacOf(MacChats(groupFirst), recent)' = MacOf(chats, recent)
    BY <1>1, <2>1, <2>2, <2>3 DEF MacOf
  <2> QED BY <1>1, <1>6, <2>3, <2>5 DEF ExportMac, Offered, MacOffered
<1> QED BY <1>1, <1>2, <1>3, <1>4, <1>5, <1>6 DEF Export, Offer, Forms

DueOf(u, sure, forced, split) == [u |-> u, source |-> offered, sure |-> sure, forced |-> forced, split |-> split]

\* What an import keeps: rs, of what was said at some places.
IsBatch(chosen, rs, ts, sure, forced, split) ==
    /\ \E S \in SUBSET DOMAIN told : ts = AtPlaces(told, S)
    /\ rs \in Seq(Range(rs)) /\ DOMAIN rs = DOMAIN ts
    /\ \A k \in DOMAIN ts :
          /\ IsDue(rs[k], DueOf(ts[k], sure, forced, split))
          /\ SourceOf(DueOf(ts[k], sure, forced, split)) = ContentId(chosen)
    /\ offered[1] = "rows" => \A k, l \in DOMAIN ts :
          ts[k].with = ts[l].with /\ (~split => rs[k].addresses = rs[l].addresses)

\* Of what is picked nothing is there more often than it was said.
LEMMA PickedNoMoreThanSaid ==
    ASSUME WellTold, NEW S \in SUBSET DOMAIN told, NEW ts, ts = AtPlaces(told, S), NEW u
    PROVE  /\ Cardinality({k \in DOMAIN ts : ts[k] = u}) <= Cardinality(Occurrences(u))
           /\ ts \in Seq(Range(ts)) /\ Len(ts) \in Nat /\ DOMAIN ts = 1 .. Len(ts)
           /\ Cardinality({k \in DOMAIN ts : ts[k] = u}) \in Nat /\ Cardinality(Occurrences(u)) \in Nat
<1>1. told \in Seq(Utterance)
  BY DEF WellTold
<1>2. PICK n \in Nat : DOMAIN told = 1 .. n
  BY <1>1
<1>3. PICK m : m = Cardinality(S)
  OBVIOUS
<1>4. /\ ts \in Seq(Utterance) /\ Len(ts) = m /\ m \in Nat /\ DOMAIN ts = 1 .. m
      /\ \A k \in 1 .. m : InOrder(S)[k] \in S /\ ts[k] = told[InOrder(S)[k]]
  BY <1>1, <1>3, AtPlacesIs
<1>5. PICK U \in SUBSET S : U = {i \in S : told[i] = u}
  OBVIOUS
<1>6. PICK T : T = {k \in 1 .. m : InOrder(S)[k] \in U}
  OBVIOUS
<1>7. Cardinality(T) = Cardinality(U)
  BY <1>1, <1>3, <1>6, AtPlacesOfPlaces
<1>8. T = {k \in DOMAIN ts : ts[k] = u}
  BY <1>4, <1>5, <1>6
<1>9. IsFiniteSet(Occurrences(u)) /\ U \subseteq Occurrences(u) /\ Occurrences(u) \in SUBSET (1 .. n)
  <2>1. Occurrences(u) \in SUBSET (1 .. n)
    BY <1>2 DEF Occurrences
  <2>2. U \subseteq Occurrences(u)
    BY <1>5 DEF Occurrences
  <2> QED BY <2>1, <2>2, PlacesInOrder
<1>10. Cardinality(U) <= Cardinality(Occurrences(u)) /\ Cardinality(U) \in Nat /\ Cardinality(Occurrences(u)) \in Nat
  BY <1>9, FS_Subset, FS_CardinalityType
<1>11. ts \in Seq(Range(ts))
  <2>1. \A k \in 1 .. m : ts[k] \in Range(ts)
    BY <1>4 DEF Range
  <2> QED BY <1>4, <2>1
<1> QED BY <1>4, <1>7, <1>8, <1>10, <1>11

\* What comes behind is as much as it was before.
LEMMA ShiftedAlike ==
    ASSUME NEW n \in Nat, NEW m \in Nat, NEW T \in SUBSET (1 .. m), NEW S, S = {j \in 1 .. (n + m) : j - n \in T}
    PROVE  Cardinality(S) <= Cardinality(T) /\ Cardinality(S) \in Nat /\ Cardinality(T) \in Nat
<1>1. S \in SUBSET (1 .. (n + m)) /\ n + m \in Nat
  OBVIOUS
<1>2. IsFiniteSet(S) /\ IsFiniteSet(T)
  BY <1>1, PlacesInOrder
<1>3. PICK f : f = [j \in S |-> j - n]
  OBVIOUS
<1>4. DOMAIN f = S /\ \A j \in S : f[j] \in T
  BY <1>3
<1>5. \A i, j \in S : f[i] = f[j] => i = j
  BY <1>1, <1>3
<1>6. Cardinality(S) <= Cardinality(T)
  BY <1>2, <1>4, <1>5, OneEach
<1> QED BY <1>2, <1>6, FS_CardinalityType

\* As long as nothing is said the file at hand stays what it is.
LEMMA OfferStays ==
    ASSUME told' = told, offered' = offered, of' = of, Offer
    PROVE  Offer'
<1>1. Withs' = Withs
  BY DEF Withs
<1>2. ASSUME NEW with \in Withs, NEW order \in Orders, NEW twelve \in BOOLEAN, ChatOffered(with, order, twelve)
      PROVE  ChatOffered(with, order, twelve)'
  <2>1. PICK talk : talk = Among({"text", "media", "notice"}, {with})
    OBVIOUS
  <2>2. talk = Among({"text", "media", "notice"}, {with})'
    BY <2>1 DEF Among
  <2> QED BY <1>2, <2>1, <2>2 DEF ChatOffered
<1>3. ASSUME NEW with \in Withs, NEW form \in Forms, NEW names \in {"all", "none", "theirs"}, NEW sides \in BOOLEAN,
             RowsOffered(with, form, names, sides)
      PROVE  RowsOffered(with, form, names, sides)'
  <2>1. PICK talk : talk = Among({"text", "undated"}, {with})
    OBVIOUS
  <2>2. talk = Among({"text", "undated"}, {with})'
    BY <2>1 DEF Among
  <2> QED BY <1>3, <2>1, <2>2 DEF RowsOffered
<1>4. ASSUME NEW listed \in BOOLEAN, NEW whole \in BOOLEAN, BackupOffered(listed, whole)
      PROVE  BackupOffered(listed, whole)'
  <2>1. PICK talk : talk = Among({"text", "media", "reaction"}, Withs)
    OBVIOUS
  <2>2. talk = Among({"text", "media", "reaction"}, Withs)'
    BY <1>1, <2>1 DEF Among
  <2> QED BY <1>4, <2>1, <2>2 DEF BackupOffered
<1>5. ASSUME NEW groupFirst \in BOOLEAN, NEW recent \in BOOLEAN, MacOffered(groupFirst, recent)
      PROVE  MacOffered(groupFirst, recent)'
  <2>1. MacChats(groupFirst)' = MacChats(groupFirst)
    BY <1>1 DEF MacChats
  <2>2. \A u, i, chats : MacRow(u, i, chats, recent)' = MacRow(u, i, chats, recent)
    BY DEF MacRow
  <2>3. MacOf(MacChats(groupFirst), recent)' = MacOf(MacChats(groupFirst), recent)
    BY <2>1, <2>2 DEF MacOf
  <2> QED BY <1>5, <2>3 DEF MacOffered
<1> QED BY <1>1, <1>2, <1>3, <1>4, <1>5 DEF Offer

SaysSplit(split, result) == split = ("per person" \in result.why)

\* An import keeps the invariant if what it keeps is due.
LEMMA KeepHolds ==
    ASSUME FormatsInv, NEW chosen, NEW rs, NEW ts, NEW left, NEW sure, NEW forced, NEW result, NEW split,
           IsBatch(chosen, rs, ts, sure, forced, split), SaysSplit(split, result),
           Keep(chosen, rs, ts, left, sure, forced, result), result.unread = left, offered # Nobody
    PROVE  FormatsInv'
<1>1. PICK new : new = [i \in DOMAIN ts |-> DueOf(ts[i], sure, forced, split)]
  OBVIOUS
<1>2. PICK ds, rr : ds = due \o new /\ rr = records \o rs
  OBVIOUS
<1>3. /\ due' = ds /\ records' = rr /\ told' = told /\ offered' = offered /\ of' = of
      /\ seen' = seen \cup {ContentId(chosen)} /\ ContentId(chosen) \notin seen
      /\ missing' = left /\ said' = result
  <2>1. new = [i \in DOMAIN ts |-> [u |-> ts[i], source |-> offered, sure |-> sure, forced |-> forced,
                   split |-> "per person" \in result.why]]
    BY <1>1, Zenon DEF DueOf, SaysSplit
  <2> QED BY <1>2, <2>1 DEF Keep
<1>4. PICK S \in SUBSET DOMAIN told : ts = AtPlaces(told, S)
  BY DEF IsBatch
<1>5. WellTold /\ records \in Seq(Range(records)) /\ due \in Seq(Range(due)) /\ Len(records) = Len(due)
  BY DEF FormatsInv
<1>6. PICK m \in Nat : m = Len(ts) /\ DOMAIN ts = 1 .. m
  BY <1>4, <1>5, PickedNoMoreThanSaid
<1>7. rs \in Seq(Range(rs)) /\ Len(rs) = m /\ DOMAIN rs = 1 .. m
  BY <1>6 DEF IsBatch
<1>8. new \in Seq(Range(new)) /\ Len(new) = m /\ DOMAIN new = 1 .. m
      /\ \A k \in 1 .. m : new[k] = DueOf(ts[k], sure, forced, split)
  <2>1. DOMAIN new = 1 .. m /\ \A k \in 1 .. m : new[k] = DueOf(ts[k], sure, forced, split)
    BY <1>1, <1>6
  <2>2. \A k \in 1 .. m : new[k] \in Range(new)
    BY <2>1 DEF Range
  <2>3. new = [i \in 1 .. m |-> DueOf(ts[i], sure, forced, split)]
    BY <1>1, <1>6
  <2> QED BY <2>1, <2>2, <2>3
<1>9. IsJoin(due, new, ds) /\ IsJoin(records, rs, rr)
  BY <1>2, <1>5, <1>7, <1>8, JoinIs
<1>10. PICK n \in Nat : n = Len(due) /\ n = Len(records) /\ DOMAIN due = 1 .. n
  BY <1>5
<1>11. /\ ds \in Seq(Range(ds)) /\ rr \in Seq(Range(rr)) /\ Len(ds) = n + m /\ Len(rr) = n + m
       /\ DOMAIN ds = 1 .. (n + m)
       /\ \A i \in 1 .. n : ds[i] = due[i] /\ rr[i] = records[i]
       /\ \A k \in 1 .. m : ds[n + k] = new[k] /\ rr[n + k] = rs[k]
       /\ \A i \in 1 .. (n + m) : i \in 1 .. n \/ \E k \in 1 .. m : i = n + k
  <2>1. /\ ds \in Seq(Range(ds)) /\ Len(ds) = n + m /\ DOMAIN ds = 1 .. (n + m)
        /\ \A i \in 1 .. n : ds[i] = due[i]
        /\ \A k \in 1 .. m : ds[n + k] = new[k]
        /\ \A i \in 1 .. (n + m) : i \in 1 .. n \/ \E k \in 1 .. m : i = n + k
    <3>1. /\ ds \in Seq(Range(ds)) /\ DOMAIN ds = 1 .. (Len(due) + Len(new)) /\ Len(ds) = Len(due) + Len(new)
          /\ \A i \in 1 .. Len(due) : ds[i] = due[i]
          /\ \A k \in 1 .. Len(new) : ds[Len(due) + k] = new[k]
          /\ \A i \in DOMAIN ds : i \in 1 .. Len(due) \/ \E k \in 1 .. Len(new) : i = Len(due) + k
      BY <1>9 DEF IsJoin
    <3>2. Len(due) = n /\ Len(new) = m
      BY <1>8, <1>10
    <3> QED BY <3>1, <3>2
  <2>2. /\ rr \in Seq(Range(rr)) /\ Len(rr) = n + m
        /\ \A i \in 1 .. n : rr[i] = records[i]
        /\ \A k \in 1 .. m : rr[n + k] = rs[k]
    BY <1>7, <1>9, <1>10 DEF IsJoin
  <2> QED BY <2>1, <2>2
<1>12. \A i \in 1 .. n : IsDue(records[i], due[i]) /\ SourceOf(due[i]) \in seen
  BY <1>10 DEF FormatsInv
<1>13. \A k \in 1 .. m : IsDue(rs[k], new[k]) /\ SourceOf(new[k]) = ContentId(chosen) /\ new[k].source = offered
                         /\ new[k].u = ts[k] /\ new[k].split = split
  <2>1. TAKE k \in 1 .. m
  <2>2. IsDue(rs[k], DueOf(ts[k], sure, forced, split)) /\ SourceOf(DueOf(ts[k], sure, forced, split)) = ContentId(chosen)
    BY <1>6 DEF IsBatch
  <2>3. /\ DueOf(ts[k], sure, forced, split).source = offered /\ DueOf(ts[k], sure, forced, split).u = ts[k]
        /\ DueOf(ts[k], sure, forced, split).split = split
    BY DEF DueOf
  <2> QED BY <1>8, <2>2, <2>3
<1>14. \A i \in 1 .. (n + m) : IsDue(rr[i], ds[i]) /\ SourceOf(ds[i]) \in seen'
  <2>1. TAKE i \in 1 .. (n + m)
  <2>2. CASE i \in 1 .. n
    BY <1>3, <1>11, <1>12, <2>2
  <2>3. CASE \E k \in 1 .. m : i = n + k
    <3>1. PICK k \in 1 .. m : i = n + k
      BY <2>3
    <3> QED BY <1>3, <1>11, <1>13, <3>1
  <2> QED BY <1>11, <2>2, <2>3
<1>15. \A i \in 1 .. n, k \in 1 .. m :
          due[i].source = new[k].source => due[i].source[1] = "chatdb" /\ due[i].u # new[k].u
  <2>1. SUFFICES ASSUME NEW i \in 1 .. n, NEW k \in 1 .. m, due[i].source = new[k].source,
                        due[i].source[1] # "chatdb" \/ due[i].u = new[k].u
                 PROVE  FALSE
    BY Zenon
  <2>2. SourceOf(due[i]) = SourceOf(new[k])
    <3>1. CASE due[i].source[1] = "chatdb"
      BY <2>1, <3>1 DEF SourceOf
    <3>2. CASE due[i].source[1] # "chatdb"
      BY <2>1, <3>2 DEF SourceOf
    <3> QED BY <3>1, <3>2
  <2> QED BY <1>3, <1>12, <1>13, <2>2
<1>16. RowsAlike(rr, ds)
  <2>1. SUFFICES ASSUME NEW i \in 1 .. (n + m), NEW j \in 1 .. (n + m), ds[i].source[1] = "rows",
                        ds[i].source = ds[j].source
                 PROVE  /\ ds[i].u.with = ds[j].u.with /\ ds[i].split = ds[j].split
                        /\ ~ds[i].split => rr[i].addresses = rr[j].addresses
    BY <1>11 DEF RowsAlike
  <2>2. CASE i \in 1 .. n /\ j \in 1 .. n
    <3>1. due[i].source[1] = "rows" /\ due[i].source = due[j].source /\ i \in DOMAIN due /\ j \in DOMAIN due
      BY <1>10, <1>11, <2>1, <2>2
    <3>2. RowsAlike(records, due)
      BY DEF FormatsInv
    <3>3. /\ due[i].u.with = due[j].u.with /\ due[i].split = due[j].split
          /\ ~due[i].split => records[i].addresses = records[j].addresses
      BY <3>1, <3>2 DEF RowsAlike
    <3> QED BY <1>11, <2>2, <3>3
  <2>3. ASSUME NEW k \in 1 .. m, NEW l \in 1 .. m, i = n + k, j = n + l
        PROVE  /\ ds[i].u.with = ds[j].u.with /\ ds[i].split = ds[j].split
               /\ ~ds[i].split => rr[i].addresses = rr[j].addresses
    <3>1. /\ ds[i] = new[k] /\ ds[j] = new[l] /\ rr[i] = rs[k] /\ rr[j] = rs[l]
      BY <1>11, <2>3
    <3>2. offered[1] = "rows"
      BY <1>13, <2>1, <3>1
    <3>3. ts[k].with = ts[l].with /\ (~split => rs[k].addresses = rs[l].addresses)
      BY <1>6, <3>2 DEF IsBatch
    <3> QED BY <1>13, <3>1, <3>3
  <2>4. ASSUME NEW k \in 1 .. m, i \in 1 .. n, j = n + k PROVE FALSE
    <3>1. due[i].source[1] = "rows" /\ due[i].source = new[k].source
      BY <1>11, <2>1, <2>4
    <3> QED BY <1>15, <2>4, <3>1
  <2>5. ASSUME NEW k \in 1 .. m, j \in 1 .. n, i = n + k PROVE FALSE
    <3>1. due[j].source[1] = "rows" /\ due[j].source = new[k].source
      BY <1>11, <2>1, <2>5
    <3> QED BY <1>15, <2>5, <3>1
  <2> QED BY <1>11, <2>2, <2>3, <2>4, <2>5
<1>17. \A i \in 1 .. (n + m) : Cardinality(Same(ds, ds[i])) <= Cardinality(Occurrences(ds[i].u))
  <2>1. TAKE i \in 1 .. (n + m)
  <2>2. PICK u, source : u = ds[i].u /\ source = ds[i].source
    OBVIOUS
  <2>3. Same(ds, ds[i]) = {j \in 1 .. (n + m) : ds[j].u = u /\ ds[j].source = source}
    BY <1>11, <2>2 DEF Same
  <2>4. CASE \E k \in 1 .. m : new[k].u = u /\ new[k].source = source
    <3>1. PICK T \in SUBSET (1 .. m) : T = {k \in 1 .. m : ts[k] = u}
      OBVIOUS
    <3>2. Same(ds, ds[i]) = {j \in 1 .. (n + m) : j - n \in T}
      <4>1. ASSUME NEW j \in 1 .. (n + m), ds[j].u = u, ds[j].source = source PROVE j - n \in T
        <5>1. j \notin 1 .. n
          BY <1>11, <1>15, <2>4, <4>1
        <5>2. PICK k \in 1 .. m : j = n + k
          BY <1>11, <5>1
        <5>3. ds[j] = new[k] /\ j - n = k
          BY <1>11, <5>2
        <5> QED BY <1>13, <3>1, <4>1, <5>3
      <4>2. ASSUME NEW j \in 1 .. (n + m), j - n \in T PROVE ds[j].u = u /\ ds[j].source = source
        <5>1. PICK k \in 1 .. m : k = j - n /\ ts[k] = u
          BY <3>1, <4>2
        <5>2. j = n + k
          BY <5>1
        <5>3. ds[j] = new[k]
          BY <1>11, <5>2
        <5> QED BY <1>13, <2>4, <5>1, <5>3
      <4> QED BY <2>3, <4>1, <4>2
    <3>3. Cardinality(Same(ds, ds[i])) <= Cardinality(T) /\ Cardinality(Same(ds, ds[i])) \in Nat /\ Cardinality(T) \in Nat
      BY <3>2, ShiftedAlike
    <3>4. Cardinality(T) <= Cardinality(Occurrences(u)) /\ Cardinality(Occurrences(u)) \in Nat
      <4>1. T = {k \in DOMAIN ts : ts[k] = u}
        BY <1>6, <3>1
      <4> QED BY <1>4, <1>5, <4>1, PickedNoMoreThanSaid
    <3> QED BY <2>2, <3>3, <3>4
  <2>5. CASE ~ \E k \in 1 .. m : new[k].u = u /\ new[k].source = source
    <3>1. \A k \in 1 .. m : ~(ds[n + k].u = u /\ ds[n + k].source = source)
      BY <1>11, <2>5
    <3>2. i \in 1 .. n
      BY <1>11, <2>2, <3>1
    <3>3. due[i].u = u /\ due[i].source = source /\ i \in DOMAIN due
      BY <1>10, <1>11, <2>2, <3>2
    <3>4. Same(ds, ds[i]) = Same(due, due[i])
      <4>1. Same(due, due[i]) = {j \in 1 .. n : due[j].u = u /\ due[j].source = source}
        BY <1>10, <3>3 DEF Same
      <4>2. ASSUME NEW j \in 1 .. (n + m), ds[j].u = u, ds[j].source = source
            PROVE  j \in 1 .. n /\ due[j].u = u /\ due[j].source = source
        BY <1>11, <3>1, <4>2
      <4>3. ASSUME NEW j \in 1 .. n, due[j].u = u, due[j].source = source
            PROVE  j \in 1 .. (n + m) /\ ds[j].u = u /\ ds[j].source = source
        BY <1>11, <4>3
      <4> QED BY <2>3, <4>1, <4>2, <4>3
    <3>5. Cardinality(Same(due, due[i])) <= Cardinality(Occurrences(due[i].u))
      BY <3>3 DEF FormatsInv
    <3> QED BY <2>2, <3>3, <3>4, <3>5
  <2> QED BY <2>4, <2>5
<1>18. MissingIsCounted'
  BY <1>3 DEF MissingIsCounted
<1>19. WellTold' /\ (offered' # Nobody => Offer')
  BY <1>3, <1>5, OfferStays DEF FormatsInv, WellTold
<1>20. \A i \in DOMAIN due' : IsDue(records'[i], due'[i]) /\ SourceOf(due'[i]) \in seen'
  BY <1>3, <1>11, <1>14
<1>21. RowsAlike(records', due')
  BY <1>3, <1>16
<1>22. \A i \in DOMAIN due' : Cardinality(Same(due', due'[i])) <= Cardinality({k \in DOMAIN told' : told'[k] = due'[i].u})
  <2>1. TAKE i \in DOMAIN due'
  <2>2. i \in 1 .. (n + m) /\ due'[i] = ds[i] /\ due' = ds
    BY <1>3, <1>11
  <2>3. {k \in DOMAIN told' : told'[k] = due'[i].u} = Occurrences(ds[i].u)
    BY <1>3, <2>2 DEF Occurrences
  <2> QED BY <1>17, <2>2, <2>3
<1>23. records' \in Seq(Range(records')) /\ due' \in Seq(Range(due')) /\ Len(records') = Len(due')
  BY <1>3, <1>11
<1> QED BY <1>18, <1>19, <1>20, <1>21, <1>22, <1>23 DEF FormatsInv, Occurrences

\* Neither a file nor a refusal touches what was recorded.
LEMMA QuietHolds ==
    ASSUME FormatsInv, told' = told, seen' = seen, records' = records, due' = due,
           offered' # Nobody => Offer', MissingIsCounted'
    PROVE  FormatsInv'
<1>1. WellTold'
  BY DEF FormatsInv, WellTold
<1>2. \A i \in DOMAIN due' : IsDue(records'[i], due'[i]) /\ SourceOf(due'[i]) \in seen'
  BY DEF FormatsInv
<1>3. RowsAlike(records', due')
  BY DEF FormatsInv
<1>4. \A i \in DOMAIN due' : Cardinality(Same(due', due'[i])) <= Cardinality({k \in DOMAIN told' : told'[k] = due'[i].u})
  <2>1. \A i \in DOMAIN due : Cardinality(Same(due, due[i])) <= Cardinality(Occurrences(due[i].u))
    BY DEF FormatsInv
  <2> QED BY <2>1 DEF Occurrences
<1>5. records' \in Seq(Range(records')) /\ due' \in Seq(Range(due')) /\ Len(records') = Len(due')
  BY DEF FormatsInv
<1> QED BY <1>1, <1>2, <1>3, <1>4, <1>5 DEF FormatsInv, Occurrences

\* What is said more changes nothing in what was recorded.
LEMMA SayHolds ==
    ASSUME FormatsInv, NEW u \in Utterances, Say(u)
    PROVE  FormatsInv'
<1>1. WellTold /\ WellTold'
  BY SayKeepsTold DEF FormatsInv
<1>2. /\ told' = Append(told, u) /\ seen' = seen /\ records' = records /\ due' = due /\ offered' = offered
      /\ offered = Nobody /\ outcome' = outcome /\ said' = said /\ missing' = missing
  BY DEF Say
<1>3. PICK n \in Nat : n = Len(told) /\ DOMAIN told = 1 .. n /\ told \in Seq(Utterance)
  BY <1>1 DEF WellTold
<1>4. u \in Utterance
  BY UtterancesAssumption DEF Sayable
<1>5. DOMAIN told' = 1 .. (n + 1) /\ \A k \in 1 .. n : told'[k] = told[k]
  BY <1>2, <1>3, <1>4
<1>6. \A v : Cardinality(Occurrences(v)) <= Cardinality({k \in DOMAIN told' : told'[k] = v})
             /\ Cardinality(Occurrences(v)) \in Nat /\ Cardinality({k \in DOMAIN told' : told'[k] = v}) \in Nat
  <2>1. TAKE v
  <2>2. PICK S, T : S = Occurrences(v) /\ T = {k \in DOMAIN told' : told'[k] = v}
    OBVIOUS
  <2>3. S = {k \in 1 .. n : told[k] = v} /\ T = {k \in 1 .. (n + 1) : told'[k] = v}
    BY <1>3, <1>5, <2>2 DEF Occurrences
  <2>4. S \subseteq T
    BY <1>5, <2>3
  <2>5. T \in SUBSET (1 .. (n + 1)) /\ n + 1 \in Nat
    BY <2>3
  <2>6. IsFiniteSet(T)
    BY <2>5, PlacesInOrder
  <2>7. Cardinality(S) <= Cardinality(T) /\ Cardinality(S) \in Nat /\ Cardinality(T) \in Nat
    BY <2>4, <2>6, FS_Subset, FS_CardinalityType
  <2> QED BY <2>2, <2>7
<1>7. \A i \in DOMAIN due : Cardinality(Same(due, due[i])) <= Cardinality(Occurrences(due[i].u))
                            /\ Cardinality(Same(due, due[i])) \in Nat
  <2>1. TAKE i \in DOMAIN due
  <2>2. PICK m \in Nat : DOMAIN due = 1 .. m
    BY DEF FormatsInv
  <2>3. Same(due, due[i]) \in SUBSET (1 .. m)
    BY <2>2 DEF Same
  <2>4. Cardinality(Same(due, due[i])) \in Nat
    BY <2>3, PlacesInOrder
  <2> QED BY <2>4 DEF FormatsInv
<1>8. \A i \in DOMAIN due' : Cardinality(Same(due', due'[i])) <= Cardinality({k \in DOMAIN told' : told'[k] = due'[i].u})
  <2>1. TAKE i \in DOMAIN due'
  <2>2. i \in DOMAIN due /\ due' = due
    BY <1>2
  <2>3. PICK a \in Nat, b \in Nat, c \in Nat :
           /\ a = Cardinality(Same(due, due[i])) /\ b = Cardinality(Occurrences(due[i].u))
           /\ c = Cardinality({k \in DOMAIN told' : told'[k] = due[i].u})
    BY <1>6, <1>7, <2>2
  <2>4. a <= b /\ b <= c
    BY <1>6, <1>7, <2>2, <2>3
  <2>5. a <= c
    BY <2>4
  <2> QED BY <2>2, <2>3, <2>5
<1>9. \A i \in DOMAIN due' : IsDue(records'[i], due'[i]) /\ SourceOf(due'[i]) \in seen'
  BY <1>2 DEF FormatsInv
<1>10. RowsAlike(records', due') /\ records' \in Seq(Range(records')) /\ due' \in Seq(Range(due'))
       /\ Len(records') = Len(due')
  BY <1>2 DEF FormatsInv
<1>11. MissingIsCounted'
  BY <1>2 DEF FormatsInv, MissingIsCounted
<1> QED BY <1>1, <1>2, <1>8, <1>9, <1>10, <1>11 DEF FormatsInv, Occurrences

\* What was said in some ways with some people.
LEMMA AmongIs ==
    ASSUME WellTold, NEW kinds, NEW withs, NEW talk, talk = Among(kinds, withs)
    PROVE  /\ talk \in Seq(Utterance) /\ Len(talk) \in Nat /\ DOMAIN talk = 1 .. Len(talk)
           /\ \A k \in DOMAIN talk : Sayable(talk[k]) /\ talk[k].kind \in kinds /\ talk[k].with \in withs
           /\ Len(talk) = Cardinality({i \in DOMAIN told : told[i].kind \in kinds /\ told[i].with \in withs})
           /\ talk \in Seq(Range(talk))
<1>1. told \in Seq(Utterance)
  BY DEF WellTold
<1>2. PICK S : S = {i \in DOMAIN told : told[i].kind \in kinds /\ told[i].with \in withs}
  OBVIOUS
<1>3. talk = AtPlaces(told, S) /\ S \in SUBSET DOMAIN told
  BY <1>2 DEF Among
<1>4. PICK m : m = Cardinality(S)
  OBVIOUS
<1>5. /\ talk \in Seq(Utterance) /\ Len(talk) = m /\ m \in Nat /\ DOMAIN talk = 1 .. m
      /\ \A k \in 1 .. m : InOrder(S)[k] \in S /\ talk[k] = told[InOrder(S)[k]]
  BY <1>1, <1>3, <1>4, AtPlacesIs
<1>6. \A i \in S : Sayable(told[i]) /\ told[i].kind \in kinds /\ told[i].with \in withs
  BY <1>2 DEF WellTold
<1>7. \A k \in 1 .. m : Sayable(talk[k]) /\ talk[k].kind \in kinds /\ talk[k].with \in withs
  BY <1>5, <1>6
<1>8. talk \in Seq(Range(talk))
  <2>1. \A k \in 1 .. m : talk[k] \in Range(talk)
    BY <1>5 DEF Range
  <2> QED BY <1>5, <2>1
<1> QED BY <1>2, <1>4, <1>5, <1>7, <1>8

\* ts is what stands at some places of talk, and so at some of what was said.
IsPicked(ts, talk, places) ==
    /\ \E S \in SUBSET DOMAIN told : ts = AtPlaces(told, S)
    /\ Cardinality(places) \in Nat /\ DOMAIN ts = 1 .. Cardinality(places) /\ Len(ts) = Cardinality(places)
    /\ \A k \in 1 .. Cardinality(places) : InOrder(places)[k] \in places /\ ts[k] = talk[InOrder(places)[k]]

\* What is picked of what is picked is at some places of what was said.
LEMMA PickedOfPicked ==
    ASSUME WellTold, NEW kinds, NEW withs, NEW talk, talk = Among(kinds, withs), NEW places \in SUBSET DOMAIN talk,
           NEW ts, ts = AtPlaces(talk, places)
    PROVE  IsPicked(ts, talk, places)
<1>1. told \in Seq(Utterance)
  BY DEF WellTold
<1>2. PICK S \in SUBSET DOMAIN told : talk = AtPlaces(told, S)
  BY DEF Among
<1>3. PICK n \in Nat : DOMAIN told = 1 .. n
  BY <1>1
<1>4. PICK m, s : m = Cardinality(S) /\ s = InOrder(S)
  OBVIOUS
<1>5. m \in Nat /\ s \in [1 .. m -> S] /\ \A i, j \in 1 .. m : i < j => s[i] < s[j]
  <2>1. S \in SUBSET (1 .. n)
    BY <1>3
  <2> QED BY <1>4, <2>1, PlacesInOrder
<1>6. talk \in Seq(Utterance) /\ DOMAIN talk = 1 .. m
  BY <1>1, <1>2, <1>4, AtPlacesIs
<1>7. PICK U \in SUBSET S : U = {s[k] : k \in places}
  BY <1>5, <1>6
<1>8. places = {k \in 1 .. m : s[k] \in U}
  <2>1. ASSUME NEW k \in 1 .. m, s[k] \in U PROVE k \in places
    <3>1. PICK l \in places : s[l] = s[k]
      BY <1>7, <2>1
    <3>2. l \in 1 .. m
      BY <1>6
    <3>3. s[l] \in Nat /\ s[k] \in Nat
      BY <1>3, <1>5, <3>2
    <3>4. ~(l < k) /\ ~(k < l)
      BY <1>5, <3>1, <3>2, <3>3
    <3> QED BY <3>2, <3>4
  <2>2. \A k \in places : k \in 1 .. m /\ s[k] \in U
    BY <1>6, <1>7
  <2> QED BY <2>1, <2>2
<1>9. AtPlaces(talk, places) = AtPlaces(told, U)
  BY <1>1, <1>2, <1>4, <1>8, AtPlacesOfPlaces
<1>10. U \in SUBSET DOMAIN told
  OBVIOUS
<1>11. PICK l, order : l = Cardinality(places) /\ order = InOrder(places)
  OBVIOUS
<1>12. /\ l \in Nat /\ DOMAIN ts = 1 .. l /\ Len(ts) = l
       /\ \A k \in 1 .. l : order[k] \in places /\ ts[k] = talk[order[k]]
  BY <1>6, <1>11, AtPlacesIs
<1> QED BY <1>9, <1>10, <1>11, <1>12 DEF IsPicked

OfKinds(talk, kinds) == {k \in DOMAIN talk : talk[k].kind \in kinds}

\* Fewer kinds are some of the places.
LEMMA AmongFewer ==
    ASSUME WellTold, NEW kinds, NEW withs, NEW fewer \in SUBSET kinds, NEW talk, talk = Among(kinds, withs),
           NEW places, places = OfKinds(talk, fewer)
    PROVE  Among(fewer, withs) = AtPlaces(talk, places)
<1>1. told \in Seq(Utterance)
  BY DEF WellTold
<1>2. PICK S \in SUBSET DOMAIN told : S = {i \in DOMAIN told : told[i].kind \in kinds /\ told[i].with \in withs}
  OBVIOUS
<1>3. PICK U \in SUBSET S : U = {i \in DOMAIN told : told[i].kind \in fewer /\ told[i].with \in withs}
  BY <1>2
<1>4. talk = AtPlaces(told, S) /\ Among(fewer, withs) = AtPlaces(told, U)
  BY <1>2, <1>3 DEF Among
<1>5. PICK m, s : m = Cardinality(S) /\ s = InOrder(S)
  OBVIOUS
<1>6. DOMAIN talk = 1 .. m /\ \A k \in 1 .. m : s[k] \in S /\ talk[k] = told[s[k]]
  BY <1>1, <1>4, <1>5, AtPlacesIs
<1>7. places = {k \in 1 .. m : s[k] \in U}
  BY <1>2, <1>3, <1>6 DEF OfKinds
<1>8. AtPlaces(talk, places) = AtPlaces(told, U)
  BY <1>1, <1>4, <1>5, <1>7, AtPlacesOfPlaces
<1> QED BY <1>4, <1>8

\* Records, emitted.
LEMMA EmittedIs ==
    ASSUME NEW recs, NEW m \in Nat, DOMAIN recs = 1 .. m, NEW rs, rs = Emitted(recs)
    PROVE  rs \in Seq(Range(rs)) /\ DOMAIN rs = 1 .. m /\ Len(rs) = m /\ \A k \in 1 .. m : rs[k] = NormalizeSms(recs[k])
<1>1. rs = [k \in 1 .. m |-> NormalizeSms(recs[k])]
  BY DEF Emitted
<1>2. \A k \in 1 .. m : rs[k] \in Range(rs)
  BY <1>1 DEF Range
<1> QED BY <1>1, <1>2

\* What a chat's reader records is due.
LEMMA ChatBatch ==
    ASSUME WellTold, Abbreviated \cap Names = {}, NEW with \in Withs, NEW order \in Orders, NEW twelve \in BOOLEAN,
           ChatOffered(with, order, twelve), NEW given \in {Myself, Nobody}, NEW forced \in Orders \cup {Nobody},
           NEW r, r = ParseWhatsApp(offered[2], given, forced), r.refused = Nobody,
           NEW ts, ts = Among({"text", "media"}, {of.with}), NEW sure, sure => r.proven /\ forced \in {of.form, Nobody},
           NEW flag
    PROVE  IsBatch(Nobody, Emitted(r.records), ts, sure, flag, FALSE)
<1>1. PICK talk : talk = Among({"text", "media", "notice"}, {with})
  OBVIOUS
<1>2. offered = <<"whatsapp", ChatOf(talk, order, twelve)>> /\ of.with = with /\ of.form = order /\ Heard(talk, with)
  BY <1>1 DEF ChatOffered, NoFile
<1>3. /\ talk \in Seq(Utterance) /\ Len(talk) \in Nat /\ DOMAIN talk = 1 .. Len(talk)
      /\ \A k \in DOMAIN talk : Sayable(talk[k]) /\ talk[k].kind \in {"text", "media", "notice"} /\ talk[k].with = with
  <2>1. \A k \in DOMAIN talk : talk[k].with \in {with}
    BY ONLY WellTold, <1>1, AmongIs
  <2>2. /\ talk \in Seq(Utterance) /\ Len(talk) \in Nat /\ DOMAIN talk = 1 .. Len(talk)
        /\ \A k \in DOMAIN talk : Sayable(talk[k]) /\ talk[k].kind \in {"text", "media", "notice"}
    BY ONLY WellTold, <1>1, AmongIs
  <2> QED BY <2>1, <2>2
<1>4. ChatTalk(talk) /\ OfOne(talk, with)
  <2>1. with \in SUBSET Others /\ IsFiniteSet(with) /\ Cardinality(with) \in Nat \ {0}
    BY WithsAre
  <2>2. with # {}
    BY <2>1, FS_EmptySet
  <2> QED BY <1>2, <1>3, <2>1, <2>2 DEF ChatTalk, OfOne
<1>5. PICK lines, places : lines = ChatOf(talk, order, twelve) /\ places = Speaking(talk)
  OBVIOUS
<1>6. r = ParseWhatsApp(lines, given, forced)
  BY <1>2, <1>5
<1>7. PICK m : m = Cardinality(places)
  OBVIOUS
<1>8. /\ m \in Nat /\ DOMAIN r.records = 1 .. m
      /\ \E p : /\ with = {p}
                /\ \A k \in 1 .. m :
                      /\ AnswersTo(NormalizeSms(r.records[k]), talk[InOrder(places)[k]])
                      /\ NormalizeSms(r.records[k]).addresses = {<<"alias", p>>}
                      /\ r.proven /\ forced \in {order, Nobody} =>
                            NormalizeSms(r.records[k]).at = MsAt(talk[InOrder(places)[k]].at)
  <2>1. ChatKept(r, talk, places, with, order, forced)
    BY ONLY Abbreviated \cap Names = {}, order \in Orders, twelve \in BOOLEAN, given \in {Myself, Nobody},
            forced \in Orders \cup {Nobody}, r.refused = Nobody, <1>4, <1>5, <1>6, ChatImported
  <2> QED BY ONLY <2>1, <1>7 DEF ChatKept
<1>9. PICK p : /\ with = {p}
               /\ \A k \in 1 .. m :
                     /\ AnswersTo(NormalizeSms(r.records[k]), talk[InOrder(places)[k]])
                     /\ NormalizeSms(r.records[k]).addresses = {<<"alias", p>>}
                     /\ r.proven /\ forced \in {order, Nobody} =>
                           NormalizeSms(r.records[k]).at = MsAt(talk[InOrder(places)[k]].at)
  BY <1>8
<1>10. places = OfKinds(talk, {"text", "media"}) /\ places \in SUBSET DOMAIN talk
  BY <1>5 DEF Speaking, OfKinds
<1>11. ts = AtPlaces(talk, places)
  <2>1. {"text", "media"} \in SUBSET {"text", "media", "notice"}
    OBVIOUS
  <2>2. ts = Among({"text", "media"}, {with})
    BY <1>2
  <2> QED BY ONLY WellTold, <1>1, <1>10, <2>1, <2>2, AmongFewer
<1>12. /\ \E S \in SUBSET DOMAIN told : ts = AtPlaces(told, S)
       /\ DOMAIN ts = 1 .. m
       /\ \A k \in 1 .. m : InOrder(places)[k] \in places /\ ts[k] = talk[InOrder(places)[k]]
  <2>1. IsPicked(ts, talk, places)
    BY ONLY WellTold, <1>1, <1>10, <1>11, PickedOfPicked
  <2> QED BY ONLY <2>1, <1>7 DEF IsPicked
<1>13. PICK rs : rs = Emitted(r.records)
  OBVIOUS
<1>14. rs \in Seq(Range(rs)) /\ DOMAIN rs = 1 .. m /\ \A k \in 1 .. m : rs[k] = NormalizeSms(r.records[k])
  BY <1>8, <1>13, EmittedIs
<1>15. ASSUME NEW k \in 1 .. m
       PROVE  /\ IsDue(rs[k], DueOf(ts[k], sure, flag, FALSE))
              /\ SourceOf(DueOf(ts[k], sure, flag, FALSE)) = ContentId(Nobody)
  <2>1. PICK d, u : d = DueOf(ts[k], sure, flag, FALSE) /\ u = ts[k]
    OBVIOUS
  <2>2. d.u = u /\ d.source = offered /\ (d.sure <=> sure) /\ ~d.split
    BY <2>1 DEF DueOf
  <2>3. u.with = with /\ u = talk[InOrder(places)[k]]
    <3>1. InOrder(places)[k] \in DOMAIN talk /\ u = talk[InOrder(places)[k]]
      BY <1>10, <1>12, <2>1
    <3> QED BY <1>3, <3>1
  <2>4. with \in SUBSET Others /\ with # {}
    BY <1>4 DEF OfOne
  <2>5. AnswersTo(rs[k], u) /\ rs[k].addresses = {<<"alias", p>>}
    BY <1>9, <1>14, <2>3
  <2>6. sure => rs[k].at = MsAt(u.at)
    BY <1>2, <1>9, <1>14, <2>3
  <2>7. d.source[1] = "whatsapp"
    BY <1>2, <2>2
  <2>8. ByTheirName(rs[k], d)
    BY <1>9, <2>2, <2>3, <2>5, <2>7 DEF ByTheirName
  <2>9. IsDue(rs[k], d)
    BY <2>2, <2>3, <2>4, <2>5, <2>6, <2>8 DEF IsDue
  <2>10. SourceOf(d) = <<offered, Nobody>>
    BY <2>2, <2>7 DEF SourceOf
  <2> QED BY <2>1, <2>9, <2>10 DEF ContentId
<1>16. offered[1] # "rows"
  BY <1>2
<1> QED BY <1>12, <1>13, <1>14, <1>15, <1>16 DEF IsBatch

Telling(talk, given) == {i \in DOMAIN talk : Tells(talk[i], given)}

\* What the reader of rows records is due, and the rest is counted.
LEMMA RowsBatch ==
    ASSUME WellTold, NEW with \in Withs, NEW form \in Forms, NEW names \in {"all", "none", "theirs"}, NEW sides \in BOOLEAN,
           RowsOffered(with, form, names, sides), NEW given \in {Myself, Nobody},
           NEW r, r = ParseGeneric(RowsIn(offered[2]), given, <<"unnamed", offered[2]>>),
           NEW talk, talk = Among({"text", "undated"}, {of.with}),
           NEW ts, ts = AtPlaces(talk, Telling(talk, given)),
           NEW result, result.why = r.problems, NEW split, SaysSplit(split, result), NEW sure, NEW flag
    PROVE  IsBatch(Nobody, Emitted(r.records), ts, sure, flag, split) /\ Len(talk) - Len(ts) = r.skipped
<1>1. PICK text : text = RowsOf(talk, form, names, sides)
  OBVIOUS
<1>2. /\ of = [with |-> with, form |-> form, names |-> names, sides |-> sides]
      /\ offered = <<"rows", RowsOf(Among({"text", "undated"}, {with}), form, names, sides)>>
      /\ Heard(Among({"text", "undated"}, {with}), with)
  BY DEF RowsOffered
<1>3. of.with = with /\ of.form = form /\ of.names = names /\ (of.sides <=> sides)
  BY ONLY <1>2
<1>4. talk = Among({"text", "undated"}, {with})
  BY <1>3
<1>5. offered = <<"rows", text>> /\ Heard(talk, with)
  BY <1>1, <1>2, <1>4
<1>6. /\ talk \in Seq(Utterance) /\ Len(talk) \in Nat /\ DOMAIN talk = 1 .. Len(talk)
      /\ \A k \in DOMAIN talk : Sayable(talk[k]) /\ talk[k].kind \in {"text", "undated"} /\ talk[k].with = with
  <2>1. \A k \in DOMAIN talk : talk[k].with \in {with}
    BY ONLY WellTold, <1>4, AmongIs
  <2>2. /\ talk \in Seq(Utterance) /\ Len(talk) \in Nat /\ DOMAIN talk = 1 .. Len(talk)
        /\ \A k \in DOMAIN talk : Sayable(talk[k]) /\ talk[k].kind \in {"text", "undated"}
    BY ONLY WellTold, <1>4, AmongIs
  <2> QED BY <2>1, <2>2
<1>7. with \in SUBSET Others /\ with # {} /\ IsFiniteSet(with)
  <2>1. with \in SUBSET Others /\ IsFiniteSet(with) /\ Cardinality(with) \in Nat \ {0}
    BY WithsAre
  <2>2. with # {}
    BY <2>1, FS_EmptySet
  <2> QED BY <2>1, <2>2
<1>8. PICK places : places = TellsIn(talk, form, names, sides, given)
  OBVIOUS
<1>9. Telling(talk, given) = places
  BY <1>3, <1>8 DEF Telling, Tells, TellsIn, TellsAs
<1>10. PICK m : m = Cardinality(places)
  OBVIOUS
<1>11. RowsKept(r, talk, places, with, text)
  <2>1. RowTalk(talk)
    BY <1>6 DEF RowTalk
  <2>2. \A i \in DOMAIN talk : talk[i].with = with
    BY <1>6
  <2>3. r = ParseGeneric(RowsIn(text), given, <<"unnamed", text>>)
    BY <1>5
  <2> QED BY ONLY form \in Forms, names \in {"all", "none", "theirs"}, sides \in BOOLEAN, given \in {Myself, Nobody},
                  <1>1, <1>5, <1>7, <1>8, <2>1, <2>2, <2>3, RowsImported
<1>12. /\ m \in Nat /\ text \in Texts /\ DOMAIN r.records = 1 .. m /\ r.skipped = Len(talk) - m
       /\ \E who : /\ "per person" \in r.problems \/ with = {who} \/ who = <<"unnamed", text>>
                   /\ \A k \in 1 .. m :
                         /\ AnswersTo(NormalizeSms(r.records[k]), talk[InOrder(places)[k]])
                         /\ NormalizeSms(r.records[k]).at = MsAt(talk[InOrder(places)[k]].at)
                         /\ "per person" \notin r.problems => NormalizeSms(r.records[k]).addresses = {<<"alias", who>>}
  BY ONLY <1>10, <1>11 DEF RowsKept
<1>13. PICK who : /\ "per person" \in r.problems \/ with = {who} \/ who = <<"unnamed", text>>
                  /\ \A k \in 1 .. m :
                        /\ AnswersTo(NormalizeSms(r.records[k]), talk[InOrder(places)[k]])
                        /\ NormalizeSms(r.records[k]).at = MsAt(talk[InOrder(places)[k]].at)
                        /\ "per person" \notin r.problems => NormalizeSms(r.records[k]).addresses = {<<"alias", who>>}
  BY <1>12
<1>14. places \in SUBSET DOMAIN talk
  BY <1>8 DEF TellsIn
<1>15. /\ \E S \in SUBSET DOMAIN told : ts = AtPlaces(told, S)
       /\ DOMAIN ts = 1 .. m /\ Len(ts) = m
       /\ \A k \in 1 .. m : InOrder(places)[k] \in places /\ ts[k] = talk[InOrder(places)[k]]
  <2>1. ts = AtPlaces(talk, places)
    BY <1>9
  <2>2. IsPicked(ts, talk, places)
    BY ONLY WellTold, <1>4, <1>14, <2>1, PickedOfPicked
  <2> QED BY ONLY <2>2, <1>10 DEF IsPicked
<1>16. PICK rs : rs = Emitted(r.records)
  OBVIOUS
<1>17. rs \in Seq(Range(rs)) /\ DOMAIN rs = 1 .. m /\ \A k \in 1 .. m : rs[k] = NormalizeSms(r.records[k])
  <2>1. m \in Nat /\ DOMAIN r.records = 1 .. m
    BY ONLY <1>12
  <2> QED BY ONLY <1>16, <2>1, EmittedIs
<1>18. ~split <=> "per person" \notin r.problems
  <2>1. SaysSplit(split, result) /\ result.why = r.problems
    OBVIOUS
  <2> QED BY ONLY <2>1, Zenon DEF SaysSplit
<1>19. \A k \in 1 .. m : ts[k].with = with
  <2>1. \A k \in 1 .. m : InOrder(places)[k] \in DOMAIN talk /\ ts[k] = talk[InOrder(places)[k]]
    BY ONLY <1>14, <1>15
  <2>2. \A k \in DOMAIN talk : talk[k].with = with
    BY ONLY <1>6
  <2> QED BY ONLY <2>1, <2>2
<1>20. ASSUME NEW k \in 1 .. m
       PROVE  /\ IsDue(rs[k], DueOf(ts[k], sure, flag, split))
              /\ SourceOf(DueOf(ts[k], sure, flag, split)) = ContentId(Nobody)
  <2>1. PICK d, u : d = DueOf(ts[k], sure, flag, split) /\ u = ts[k]
    OBVIOUS
  <2>2. d.u = u /\ d.source = offered /\ (d.sure <=> sure) /\ (d.split <=> split)
    BY <2>1 DEF DueOf
  <2>3. u.with = with /\ u = talk[InOrder(places)[k]]
    BY <1>15, <1>19, <2>1
  <2>4. AnswersTo(rs[k], u) /\ rs[k].at = MsAt(u.at)
    BY <1>13, <1>17, <2>3
  <2>5. d.source = <<"rows", text>> /\ d.source[1] = "rows" /\ d.source[2] = text
    BY <1>5, <2>2
  <2>6. CASE split
    <3>1. ByRows(rs[k], d)
      BY <2>2, <2>5, <2>6 DEF ByRows
    <3>2. IsDue(rs[k], d)
      BY <1>7, <2>2, <2>3, <2>4, <3>1 DEF IsDue
    <3>3. SourceOf(d) = <<offered, Nobody>>
      BY <2>2, <2>5 DEF SourceOf
    <3> QED BY <2>1, <3>2, <3>3 DEF ContentId
  <2>7. CASE ~split
    <3>1. "per person" \notin r.problems
      BY <1>18, <2>7
    <3>2. rs[k].addresses = {<<"alias", who>>} /\ (with = {who} \/ who = <<"unnamed", text>>)
      BY <1>13, <1>17, <3>1
    <3>3. who \in with \cup {<<"unnamed", text>>}
      BY <3>2
    <3>4. ByRows(rs[k], d)
      BY <1>12, <2>2, <2>3, <2>5, <3>2, <3>3 DEF ByRows
    <3>5. IsDue(rs[k], d)
      BY <1>7, <2>2, <2>3, <2>4, <3>4 DEF IsDue
    <3>6. SourceOf(d) = <<offered, Nobody>>
      BY <2>2, <2>5 DEF SourceOf
    <3> QED BY <2>1, <3>5, <3>6 DEF ContentId
  <2> QED BY <2>6, <2>7
<1>21. \A k, l \in 1 .. m : ts[k].with = ts[l].with /\ (~split => rs[k].addresses = rs[l].addresses)
  BY <1>13, <1>17, <1>18, <1>19
<1>22. IsBatch(Nobody, rs, ts, sure, flag, split)
  <2>1. DOMAIN rs = DOMAIN ts /\ rs \in Seq(Range(rs)) /\ \E S \in SUBSET DOMAIN told : ts = AtPlaces(told, S)
    BY ONLY <1>15, <1>17
  <2>2. \A k \in DOMAIN ts : /\ IsDue(rs[k], DueOf(ts[k], sure, flag, split))
                             /\ SourceOf(DueOf(ts[k], sure, flag, split)) = ContentId(Nobody)
    BY ONLY <1>15, <1>20, Zenon
  <2>3. \A k, l \in DOMAIN ts : ts[k].with = ts[l].with /\ (~split => rs[k].addresses = rs[l].addresses)
    BY ONLY <1>15, <1>21, Zenon
  <2> QED BY ONLY <2>1, <2>2, <2>3, Zenon DEF IsBatch
<1> QED BY <1>12, <1>15, <1>16, <1>22

\* What the reader of a backup records is due.
LEMMA BackupBatch ==
    ASSUME WellTold, NEW listed \in BOOLEAN, NEW whole \in BOOLEAN, BackupOffered(listed, whole),
           NEW r, r = ParseSmsBackup(offered[2].elements, offered[2].whole), r.refused = Nobody,
           NEW ts, ts = Among({"text", "media", "reaction"}, Withs), NEW sure, NEW flag
    PROVE  IsBatch(Nobody, r.records, ts, sure, flag, FALSE)
<1>1. PICK elements, copy : elements = ElementsOf(ts, listed) /\ copy = [elements |-> elements, whole |-> whole]
  OBVIOUS
<1>2. offered = <<"backup", copy>>
  BY <1>1 DEF BackupOffered
<1>3. offered[1] = "backup" /\ offered[2] = copy
  BY <1>2
<1>4. copy.elements = elements /\ (copy.whole <=> whole)
  BY <1>1
<1>5. r = ParseSmsBackup(elements, whole)
  <2>1. copy.whole = whole
    BY ONLY <1>1, Zenon
  <2> QED BY ONLY r = ParseSmsBackup(offered[2].elements, offered[2].whole), <1>3, <1>4, <2>1
<1>6. /\ ts \in Seq(Utterance) /\ Len(ts) \in Nat /\ DOMAIN ts = 1 .. Len(ts)
      /\ \A k \in DOMAIN ts : Sayable(ts[k]) /\ ts[k].kind \in {"text", "media", "reaction"} /\ ts[k].with \in Withs
  BY ONLY WellTold, ts = Among({"text", "media", "reaction"}, Withs), AmongIs
<1>7. BackupTalk(ts)
  BY <1>6 DEF BackupTalk
<1>8. BackupKept(r, ts)
  BY ONLY <1>1, <1>5, <1>7, listed \in BOOLEAN, whole \in BOOLEAN, r.refused = Nobody, BackupImported
<1>9. PICK rs : rs = r.records
  OBVIOUS
<1>10. /\ rs \in Seq(Range(rs)) /\ DOMAIN rs = 1 .. Len(ts)
       /\ \A k \in 1 .. Len(ts) : /\ AnswersTo(rs[k], ts[k]) /\ rs[k].at = MsAt(ts[k].at)
                                  /\ rs[k].addresses \ Own = NumbersOf(ts[k].with)
  BY ONLY <1>8, <1>9 DEF BackupKept
<1>11. \A k \in 1 .. Len(ts) : ts[k].with \in SUBSET Others /\ ts[k].with # {}
  <2>1. TAKE k \in 1 .. Len(ts)
  <2>2. ts[k].with \in Withs
    BY <1>6
  <2>3. ts[k].with \in SUBSET Others /\ Cardinality(ts[k].with) \in Nat \ {0}
    BY <2>2, WithsAre
  <2> QED BY <2>3, FS_EmptySet
<1>12. ASSUME NEW k \in 1 .. Len(ts)
       PROVE  /\ IsDue(rs[k], DueOf(ts[k], sure, flag, FALSE))
              /\ SourceOf(DueOf(ts[k], sure, flag, FALSE)) = ContentId(Nobody)
  <2>1. PICK d, u : d = DueOf(ts[k], sure, flag, FALSE) /\ u = ts[k]
    OBVIOUS
  <2>2. d.u = u /\ d.source = offered /\ (d.sure <=> sure) /\ ~d.split
    BY <2>1 DEF DueOf
  <2>3. d.source[1] = "backup"
    BY <1>3, <2>2
  <2>4. ByTheirNumbers(rs[k], d)
    BY <1>10, <2>1, <2>2, <2>3 DEF ByTheirNumbers
  <2>5. IsDue(rs[k], d)
    BY <1>10, <1>11, <2>1, <2>2, <2>4 DEF IsDue
  <2>6. SourceOf(d) = <<offered, Nobody>>
    BY <2>2, <2>3 DEF SourceOf
  <2> QED BY <2>1, <2>5, <2>6 DEF ContentId
<1>13. \E S \in SUBSET DOMAIN told : ts = AtPlaces(told, S)
  BY DEF Among
<1>14. offered[1] # "rows"
  BY <1>3
<1>15. \A k \in DOMAIN ts : /\ IsDue(rs[k], DueOf(ts[k], sure, flag, FALSE))
                            /\ SourceOf(DueOf(ts[k], sure, flag, FALSE)) = ContentId(Nobody)
  BY ONLY <1>6, <1>12, Zenon
<1>16. rs \in Seq(Range(rs)) /\ DOMAIN rs = DOMAIN ts
  BY <1>6, <1>10
<1>17. IsBatch(Nobody, rs, ts, sure, flag, FALSE)
  BY ONLY <1>13, <1>14, <1>15, <1>16, Zenon DEF IsBatch
<1> QED BY <1>9, <1>17

\* What the reader of the Mac's database records is due, and what it leaves
\* out is counted.
LEMMA MacBatch ==
    ASSUME WellTold, NEW groupFirst \in BOOLEAN, NEW recent \in BOOLEAN, MacOffered(groupFirst, recent),
           NEW want \in Wishes, NEW r, r = ParseIMessage(offered[2], want), r.refused = Nobody,
           NEW ts, ts = Among({"text", "media", "reaction", "unsent", "unreadable"}, {Meant(want)}), NEW sure, NEW flag
    PROVE  /\ IsBatch(Chosen(want), Emitted(r.records), ts, sure, flag, FALSE)
           /\ Len(Among({"undated"}, {Meant(want)})) = r.undated
<1>1. PICK db : db = MacOf(MacChats(groupFirst), recent)
  OBVIOUS
<1>2. offered = <<"chatdb", db>> /\ \A i \in DOMAIN told : told[i].kind # "notice"
  BY <1>1 DEF MacOffered
<1>3. offered[1] = "chatdb" /\ offered[2] = db
  BY ONLY <1>2
<1>4. PICK chosen : chosen = PickConversation(ConversationsIn(db), want)
  OBVIOUS
<1>5. \E p \in Others : MacKept(r, chosen, want, p)
  <2>1. \A i \in DOMAIN told : told[i].kind # "notice"
    BY <1>2
  <2>2. r = ParseIMessage(db, want)
    BY <1>3
  <2> QED BY ONLY WellTold, groupFirst \in BOOLEAN, recent \in BOOLEAN, want \in Wishes, r.refused = Nobody,
                  <1>1, <1>4, <2>1, <2>2, MacImported
<1>6. PICK p \in Others : MacKept(r, chosen, want, p)
  BY <1>5
<1>7. PICK places, m : places = SaidWith(Dated, {p}) /\ m = Cardinality(places)
  OBVIOUS
<1>8. /\ {p} \in Withs /\ Meant(want) = {p} /\ chosen # {} /\ (CHOOSE x \in chosen : TRUE).ident = p
      /\ r.undated = Cardinality(SaidWith({"undated"}, {p}))
      /\ m \in Nat /\ DOMAIN r.records = 1 .. m
  BY ONLY <1>6, <1>7 DEF MacKept
<1>9. \A k \in 1 .. m :
         /\ AnswersTo(NormalizeSms(r.records[k]), told[InOrder(places)[k]])
         /\ NormalizeSms(r.records[k]).addresses = NumbersOf({p})
         /\ NormalizeSms(r.records[k]).at = MsAt(told[InOrder(places)[k]].at)
  BY ONLY <1>6, <1>7 DEF MacKept
<1>10. Chosen(want) = p
  BY ONLY <1>3, <1>4, <1>8 DEF Chosen
<1>11. \A kinds : Among(kinds, {{p}}) = AtPlaces(told, SaidWith(kinds, {p}))
  <2>1. TAKE kinds
  <2>2. {i \in DOMAIN told : told[i].kind \in kinds /\ told[i].with \in {{p}}} = SaidWith(kinds, {p})
    BY DEF SaidWith
  <2> QED BY ONLY <2>2 DEF Among
<1>12. told \in Seq(Utterance) /\ \A kinds : SaidWith(kinds, {p}) \in SUBSET DOMAIN told
  BY DEF WellTold, SaidWith
<1>13. ts = AtPlaces(told, places)
  BY ONLY ts = Among({"text", "media", "reaction", "unsent", "unreadable"}, {Meant(want)}), <1>7, <1>8, <1>11 DEF Dated
<1>14. /\ DOMAIN ts = 1 .. m
       /\ \A k \in 1 .. m : InOrder(places)[k] \in places /\ ts[k] = told[InOrder(places)[k]]
  <2>1. told \in Seq(Utterance) /\ places \in SUBSET DOMAIN told
    BY ONLY <1>7, <1>12
  <2>2. m = Cardinality(places)
    BY ONLY <1>7
  <2> QED BY ONLY <1>13, <2>1, <2>2, AtPlacesIs
<1>15. Len(Among({"undated"}, {Meant(want)})) = r.undated
  <2>1. PICK lost : lost = SaidWith({"undated"}, {p})
    OBVIOUS
  <2>2. lost \in SUBSET DOMAIN told
    BY <1>12, <2>1
  <2>3. Len(AtPlaces(told, lost)) = Cardinality(lost)
    BY ONLY <1>12, <2>2, AtPlacesIs
  <2> QED BY ONLY <1>8, <1>11, <2>1, <2>3
<1>16. PICK rs : rs = Emitted(r.records)
  OBVIOUS
<1>17. rs \in Seq(Range(rs)) /\ DOMAIN rs = 1 .. m /\ \A k \in 1 .. m : rs[k] = NormalizeSms(r.records[k])
  BY ONLY <1>8, <1>16, EmittedIs
<1>18. \A i \in places : told[i].with = {p}
  BY <1>7 DEF SaidWith
<1>19. ASSUME NEW k \in DOMAIN ts
       PROVE  /\ IsDue(rs[k], DueOf(ts[k], sure, flag, FALSE))
              /\ SourceOf(DueOf(ts[k], sure, flag, FALSE)) = ContentId(Chosen(want))
  <2>1. PICK d, u : d = DueOf(ts[k], sure, flag, FALSE) /\ u = ts[k]
    OBVIOUS
  <2>2. d.u = u /\ d.source = offered /\ (d.sure <=> sure) /\ ~d.split
    BY <2>1 DEF DueOf
  <2>3. u.with = {p} /\ AnswersTo(rs[k], u) /\ rs[k].at = MsAt(u.at) /\ rs[k].addresses = NumbersOf({p})
    <3>1. k \in 1 .. m
      BY ONLY k \in DOMAIN ts, <1>14
    <3>2. PICK i : i = InOrder(places)[k]
      OBVIOUS
    <3>3. i \in places /\ u = told[i] /\ u.with = {p}
      BY ONLY <1>14, <1>18, <2>1, <3>1, <3>2
    <3>4. PICK rec : rec = r.records[k]
      OBVIOUS
    <3>5. AnswersTo(NormalizeSms(rec), u) /\ NormalizeSms(rec).addresses = NumbersOf({p}) /\ NormalizeSms(rec).at = MsAt(u.at)
      BY ONLY <1>9, <3>1, <3>2, <3>3, <3>4, Zenon
    <3>6. rs[k] = NormalizeSms(rec)
      BY ONLY <1>17, <3>1, <3>4
    <3> QED BY ONLY <3>3, <3>5, <3>6
  <2>4. d.source[1] = "chatdb"
    BY <1>3, <2>2
  <2>5. NumbersOf({p}) \ Own = NumbersOf({p})
    <3>1. NumbersOf({p}) = {<<"number", p>>}
      BY DEF NumbersOf
    <3>2. <<"number", p>> # <<"alias", Myself>> /\ <<"number", p>> # <<"number", Myself>>
      BY NamesAssumption
    <3> QED BY <3>1, <3>2 DEF Own
  <2>6. ByTheirNumbers(rs[k], d)
    BY <2>2, <2>3, <2>4, <2>5 DEF ByTheirNumbers
  <2>7. IsDue(rs[k], d)
    BY <2>2, <2>3, <2>6 DEF IsDue
  <2>8. SourceOf(d) = <<offered, p>>
    <3>1. (CHOOSE q \in {p} : TRUE) = p
      OBVIOUS
    <3> QED BY ONLY <2>2, <2>3, <2>4, <3>1 DEF SourceOf
  <2> QED BY <1>10, <2>1, <2>7, <2>8 DEF ContentId
<1>20. \E S \in SUBSET DOMAIN told : ts = AtPlaces(told, S)
  BY <1>7, <1>12, <1>13
<1>21. offered[1] # "rows"
  BY <1>3
<1>22. rs \in Seq(Range(rs)) /\ DOMAIN rs = DOMAIN ts
  BY <1>14, <1>17
<1>23. IsBatch(Chosen(want), rs, ts, sure, flag, FALSE)
  BY ONLY <1>19, <1>20, <1>21, <1>22, Zenon DEF IsBatch
<1> QED BY ONLY <1>15, <1>16, <1>23

\* Nothing is recorded of what is refused or was imported before.
LEMMA RefusalHolds ==
    ASSUME FormatsInv, NEW chosen, NEW reason, reason # "done", Refuse(chosen, reason) \/ Imported(chosen)
    PROVE  FormatsInv'
<1>1. /\ told' = told /\ offered' = offered /\ of' = of /\ seen' = seen /\ records' = records /\ due' = due
      /\ outcome' # "done"
  BY DEF Refuse, Imported
<1>2. offered' # Nobody => Offer'
  BY <1>1, OfferStays DEF FormatsInv
<1>3. MissingIsCounted'
  BY <1>1 DEF MissingIsCounted
<1> QED BY <1>1, <1>2, <1>3, QuietHolds

\* Which file it is tells which reader reads it.
LEMMA OfferIs ==
    ASSUME Offer
    PROVE  /\ offered[1] = "whatsapp" =>
                 \E with \in Withs, order \in Orders, twelve \in BOOLEAN : ChatOffered(with, order, twelve)
           /\ offered[1] = "rows" =>
                 \E with \in Withs, form \in Forms, names \in {"all", "none", "theirs"}, sides \in BOOLEAN :
                    RowsOffered(with, form, names, sides)
           /\ offered[1] = "backup" => \E listed, whole \in BOOLEAN : BackupOffered(listed, whole)
           /\ offered[1] = "chatdb" => \E groupFirst, recent \in BOOLEAN : MacOffered(groupFirst, recent)
<1>1. \A with, order, twelve : ChatOffered(with, order, twelve) => offered[1] = "whatsapp"
  BY DEF ChatOffered
<1>2. \A with, form, names, sides : RowsOffered(with, form, names, sides) => offered[1] = "rows"
  BY DEF RowsOffered
<1>3. \A listed, whole : BackupOffered(listed, whole) => offered[1] = "backup"
  BY DEF BackupOffered
<1>4. \A groupFirst, recent : MacOffered(groupFirst, recent) => offered[1] = "chatdb"
  BY DEF MacOffered
<1>5. "whatsapp" # "rows" /\ "whatsapp" # "backup" /\ "whatsapp" # "chatdb" /\ "rows" # "backup" /\ "rows" # "chatdb"
      /\ "backup" # "chatdb"
  OBVIOUS
<1> QED BY <1>1, <1>2, <1>3, <1>4, <1>5, Zenon DEF Offer

LEMMA ChatHolds ==
    ASSUME FormatsInv, offered # Nobody, Abbreviated \cap Names = {}, NEW given \in {Myself, Nobody},
           NEW forced \in Orders \cup {Nobody}, ImportChat(given, forced)
    PROVE  FormatsInv'
<1>1. PICK r, ts : r = ParseWhatsApp(offered[2], given, forced) /\ ts = Among({"text", "media"}, {of.with})
  OBVIOUS
<1>2. PICK sure, flag : sure = (r.proven /\ forced \in {of.form, Nobody}) /\ flag = (forced # Nobody)
  OBVIOUS
<1>3. /\ offered[1] = "whatsapp"
      /\ \/ Imported(Nobody)
         \/ r.refused # Nobody /\ Refuse(Nobody, r.refused)
         \/ r.refused = Nobody /\ Keep(Nobody, Emitted(r.records), ts, 0, sure, flag, Silent)
  BY ONLY ImportChat(given, forced), <1>1, <1>2, Zenon DEF ImportChat
<1>4. CASE Imported(Nobody)
  BY <1>4, "none" # "done", RefusalHolds
<1>5. CASE r.refused # Nobody /\ Refuse(Nobody, r.refused)
  <2>1. r.refused # "done"
    BY <1>1, <1>5 DEF ParseWhatsApp
  <2> QED BY <1>5, <2>1, RefusalHolds
<1>6. CASE r.refused = Nobody /\ Keep(Nobody, Emitted(r.records), ts, 0, sure, flag, Silent)
  <2>1. WellTold /\ Offer
    BY DEF FormatsInv
  <2>2. PICK with \in Withs, order \in Orders, twelve \in BOOLEAN : ChatOffered(with, order, twelve)
    BY <1>3, <2>1, OfferIs
  <2>3. sure => r.proven /\ forced \in {of.form, Nobody}
    BY ONLY <1>2, Zenon
  <2>4. IsBatch(Nobody, Emitted(r.records), ts, sure, flag, FALSE)
    BY ONLY <1>1, <1>6, <2>1, <2>2, <2>3, Abbreviated \cap Names = {}, given \in {Myself, Nobody},
            forced \in Orders \cup {Nobody}, ChatBatch
  <2>5. SaysSplit(FALSE, Silent) /\ Silent.unread = 0
    BY DEF SaysSplit, Silent
  <2> QED BY ONLY FormatsInv, offered # Nobody, <1>6, <2>4, <2>5, KeepHolds
<1> QED BY <1>3, <1>4, <1>5, <1>6

LEMMA RowsHolds ==
    ASSUME FormatsInv, offered # Nobody, NEW given \in {Myself, Nobody}, ImportRows(given)
    PROVE  FormatsInv'
<1>1. PICK r, talk : /\ r = ParseGeneric(RowsIn(offered[2]), given, <<"unnamed", offered[2]>>)
                     /\ talk = Among({"text", "undated"}, {of.with})
  OBVIOUS
<1>2. PICK ts, result, split : /\ ts = AtPlaces(talk, Telling(talk, given))
                               /\ result = [unread |-> r.skipped, why |-> r.problems]
                               /\ split = ("per person" \in result.why)
  OBVIOUS
<1>3. PICK sure, flag : sure = TRUE /\ flag = FALSE
  OBVIOUS
<1>4. /\ offered[1] = "rows"
      /\ \/ Imported(Nobody)
         \/ Keep(Nobody, Emitted(r.records), ts, Len(talk) - Len(ts), sure, flag, result)
  BY ONLY ImportRows(given), <1>1, <1>2, <1>3, Zenon DEF ImportRows, Telling
<1>5. CASE Imported(Nobody)
  BY <1>5, "none" # "done", RefusalHolds
<1>6. CASE Keep(Nobody, Emitted(r.records), ts, Len(talk) - Len(ts), sure, flag, result)
  <2>1. WellTold /\ Offer
    BY DEF FormatsInv
  <2>2. PICK with \in Withs, form \in Forms, names \in {"all", "none", "theirs"}, sides \in BOOLEAN :
           RowsOffered(with, form, names, sides)
    BY <1>4, <2>1, OfferIs
  <2>3. result.why = r.problems /\ result.unread = r.skipped
    BY ONLY <1>2
  <2>4. SaysSplit(split, result)
    BY ONLY <1>2 DEF SaysSplit
  <2>5. IsBatch(Nobody, Emitted(r.records), ts, sure, flag, split) /\ Len(talk) - Len(ts) = r.skipped
    <3>1. ts = AtPlaces(talk, Telling(talk, given))
      BY ONLY <1>2
    <3> QED BY ONLY <1>1, <2>1, <2>2, <2>3, <2>4, <3>1, given \in {Myself, Nobody}, RowsBatch
  <2>6. result.unread = Len(talk) - Len(ts)
    BY ONLY <2>3, <2>5
  <2> QED BY ONLY FormatsInv, offered # Nobody, <1>6, <2>4, <2>5, <2>6, KeepHolds
<1> QED BY <1>4, <1>5, <1>6

LEMMA BackupHolds ==
    ASSUME FormatsInv, offered # Nobody, ImportBackup
    PROVE  FormatsInv'
<1>1. PICK r, ts : /\ r = ParseSmsBackup(offered[2].elements, offered[2].whole)
                   /\ ts = Among({"text", "media", "reaction"}, Withs)
  OBVIOUS
<1>2. PICK sure, flag : sure = TRUE /\ flag = FALSE
  OBVIOUS
<1>3. /\ offered[1] = "backup"
      /\ \/ Imported(Nobody)
         \/ r.refused # Nobody /\ Refuse(Nobody, r.refused)
         \/ r.refused = Nobody /\ Keep(Nobody, r.records, ts, 0, sure, flag, Silent)
  BY ONLY ImportBackup, <1>1, <1>2, Zenon DEF ImportBackup
<1>4. CASE Imported(Nobody)
  BY <1>4, "none" # "done", RefusalHolds
<1>5. CASE r.refused # Nobody /\ Refuse(Nobody, r.refused)
  <2>1. r.refused # "done"
    BY <1>1, <1>5 DEF ParseSmsBackup
  <2> QED BY <1>5, <2>1, RefusalHolds
<1>6. CASE r.refused = Nobody /\ Keep(Nobody, r.records, ts, 0, sure, flag, Silent)
  <2>1. WellTold /\ Offer
    BY DEF FormatsInv
  <2>2. PICK listed \in BOOLEAN, whole \in BOOLEAN : BackupOffered(listed, whole)
    BY <1>3, <2>1, OfferIs
  <2>3. IsBatch(Nobody, r.records, ts, sure, flag, FALSE)
    BY ONLY <1>1, <1>6, <2>1, <2>2, BackupBatch
  <2>4. SaysSplit(FALSE, Silent) /\ Silent.unread = 0
    BY DEF SaysSplit, Silent
  <2> QED BY ONLY FormatsInv, offered # Nobody, <1>6, <2>3, <2>4, KeepHolds
<1> QED BY <1>3, <1>4, <1>5, <1>6

LEMMA MacHolds ==
    ASSUME FormatsInv, offered # Nobody, NEW live \in BOOLEAN, NEW beta \in BOOLEAN, NEW want \in Wishes,
           ImportMac(live, beta, want)
    PROVE  FormatsInv'
<1>1. PICK r, ts : /\ r = ParseIMessage(offered[2], want)
                   /\ ts = Among({"text", "media", "reaction", "unsent", "unreadable"}, {Meant(want)})
  OBVIOUS
<1>2. PICK sure, flag, lost, result :
         /\ sure = TRUE /\ flag = FALSE /\ lost = Len(Among({"undated"}, {Meant(want)}))
         /\ result = [unread |-> r.undated, why |-> IF r.undated > 0 THEN {"undated"} ELSE {}]
  OBVIOUS
<1>3. /\ offered[1] = "chatdb"
      /\ \/ Refuse(<<"live">>, "live")
         \/ Imported(Chosen(want))
         \/ Refuse(Chosen(want), "beta")
         \/ r.refused # Nobody /\ Refuse(Chosen(want), r.refused)
         \/ r.refused = Nobody /\ Keep(Chosen(want), Emitted(r.records), ts, lost, sure, flag, result)
  BY ONLY ImportMac(live, beta, want), <1>1, <1>2, Zenon DEF ImportMac
<1>4. CASE Refuse(<<"live">>, "live")
  BY <1>4, "live" # "done", RefusalHolds
<1>5. CASE Imported(Chosen(want)) \/ Refuse(Chosen(want), "beta")
  BY <1>5, "beta" # "done", RefusalHolds
<1>6. CASE r.refused # Nobody /\ Refuse(Chosen(want), r.refused)
  <2>1. r.refused # "done"
    BY <1>1, <1>6 DEF ParseIMessage
  <2> QED BY <1>6, <2>1, RefusalHolds
<1>7. CASE r.refused = Nobody /\ Keep(Chosen(want), Emitted(r.records), ts, lost, sure, flag, result)
  <2>1. WellTold /\ Offer
    BY DEF FormatsInv
  <2>2. PICK groupFirst \in BOOLEAN, recent \in BOOLEAN : MacOffered(groupFirst, recent)
    BY <1>3, <2>1, OfferIs
  <2>3. IsBatch(Chosen(want), Emitted(r.records), ts, sure, flag, FALSE) /\ lost = r.undated
    <3>1. lost = Len(Among({"undated"}, {Meant(want)}))
      BY ONLY <1>2
    <3> QED BY ONLY <1>1, <1>7, <2>1, <2>2, <3>1, want \in Wishes, MacBatch
  <2>4. result.why \subseteq {"undated"} /\ result.unread = r.undated
    BY ONLY <1>2
  <2>5. SaysSplit(FALSE, result)
    <3>1. result.why = {} \/ result.why = {"undated"}
      BY ONLY <1>2
    <3>2. SaysSplit(FALSE, [why |-> {}])
      BY ONLY TRUE DEF SaysSplit
    <3>3. SaysSplit(FALSE, [why |-> {"undated"}])
      BY ONLY TRUE DEF SaysSplit
    <3>4. \A x, y : x.why = y.why => (SaysSplit(FALSE, x) <=> SaysSplit(FALSE, y))
      BY ONLY TRUE, Zenon DEF SaysSplit
    <3>5. [why |-> {}].why = {} /\ [why |-> {"undated"}].why = {"undated"}
      OBVIOUS
    <3> QED BY ONLY <3>1, <3>2, <3>3, <3>4, <3>5, Zenon
  <2>6. result.unread = lost
    BY ONLY <2>3, <2>4
  <2> QED BY ONLY FormatsInv, offered # Nobody, <1>7, <2>3, <2>5, <2>6, KeepHolds
<1> QED BY <1>3, <1>4, <1>5, <1>6, <1>7

-----------------------------------------------------------------------------
(* What the invariant says *)

\* A counterpart is numbers, or a name: of the one other, or of the file.
Unnamed(d, who) == \E text \in Texts : d.source = <<"rows", text>> /\ who = <<"unnamed", text>>

Named(r, d, who) ==
    /\ r.addresses \ Own = {<<"alias", who>>}
    /\ \/ d.u.with = {who} /\ who \in Others
       \/ Unnamed(d, who)

Numbered(r, d) == r.addresses \ Own = NumbersOf(d.u.with)

LEMMA CounterpartIs ==
    ASSUME NEW r, NEW d, IsDue(r, d), ~d.split
    PROVE  /\ d.u.with \in SUBSET Others /\ d.u.with # {}
           /\ Numbered(r, d) \/ \E who : Named(r, d, who)
<1>1. d.u.with \in SUBSET Others /\ d.u.with # {}
  BY DEF IsDue
<1>2. CASE ByTheirNumbers(r, d)
  BY <1>1, <1>2 DEF ByTheirNumbers, Numbered
<1>3. CASE ByTheirName(r, d)
  <2>1. PICK p \in d.u.with : d.u.with = {p} /\ r.addresses = {<<"alias", p>>}
    BY <1>3 DEF ByTheirName
  <2>2. p \in Others /\ p # Myself
    BY <1>1, NamesAssumption
  <2>3. <<"alias", p>> # <<"alias", Myself>> /\ <<"alias", p>> # <<"number", Myself>>
    BY <2>2
  <2>4. r.addresses \ Own = {<<"alias", p>>}
    BY <2>1, <2>3 DEF Own
  <2> QED BY <1>1, <2>1, <2>2, <2>4 DEF Named
<1>4. CASE ByRows(r, d)
  <2>1. PICK text : text = d.source[2]
    OBVIOUS
  <2>2. PICK who : /\ d.u.with = {who} \/ (who = <<"unnamed", text>> /\ text \in Texts)
                   /\ r.addresses = {<<"alias", who>>} /\ d.source = <<"rows", text>>
    BY <1>4, <2>1 DEF ByRows
  <2>3. who # Myself
    <3>1. CASE d.u.with = {who}
      BY <1>1, <3>1, NamesAssumption
    <3>2. CASE who = <<"unnamed", text>> /\ text \in Texts
      <4>1. who \in {"unnamed"} \X Texts
        BY <3>2
      <4>2. Myself \in Names
        BY DEF Names
      <4> QED BY ONLY <4>1, <4>2, OthersAssumption
    <3> QED BY <2>2, <3>1, <3>2
  <2>4. <<"alias", who>> # <<"alias", Myself>> /\ <<"alias", who>> # <<"number", Myself>>
    BY <2>3
  <2>5. r.addresses \ Own = {<<"alias", who>>}
    BY <2>2, <2>4 DEF Own
  <2>6. CASE d.u.with = {who}
    BY <1>1, <2>5, <2>6 DEF Named
  <2>7. CASE who = <<"unnamed", text>> /\ text \in Texts
    <3>1. Unnamed(d, who)
      <4>1. d.source = <<"rows", text>>
        BY <2>2
      <4>2. who = <<"unnamed", text>> /\ text \in Texts
        BY <2>7
      <4>3. \E x \in Texts : d.source = <<"rows", x>> /\ who = <<"unnamed", x>>
        BY ONLY <4>1, <4>2
      <4> QED BY ONLY <4>3, Zenon DEF Unnamed
    <3>2. Named(r, d, who)
      BY ONLY <2>5, <3>1, Zenon DEF Named
    <3> QED BY <1>1, <3>2
  <2> QED BY <2>2, <2>6, <2>7
<1> QED BY <1>1, <1>2, <1>3, <1>4 DEF IsDue

\* Numbers tell whose they are.
LEMMA NumbersDiffer ==
    ASSUME NEW S, NEW T, NumbersOf(S) = NumbersOf(T)
    PROVE  S = T
<1>1. \A p, U : p \in U <=> <<"number", p>> \in NumbersOf(U)
  <2>1. TAKE p, U
  <2>2. \A q : <<"number", q>> = <<"number", p>> => q = p
    OBVIOUS
  <2>3. <<"number", p>> \in NumbersOf(U) <=> \E q \in U : <<"number", p>> = <<"number", q>>
    BY ONLY TRUE, Zenon DEF NumbersOf
  <2> QED BY ONLY <2>2, <2>3, Zenon
<1>2. \A p : p \in S <=> p \in T
  BY ONLY NumbersOf(S) = NumbersOf(T), <1>1, Zenon
<1> QED BY <1>2

\* Two conversations have other counterparts, but for rows of one file.
LEMMA CounterpartsDiffer ==
    ASSUME NEW r, NEW d, NEW s, NEW e, IsDue(r, d), IsDue(s, e), ~d.split, ~e.split,
           d.u.with # e.u.with, r.addresses \ Own = s.addresses \ Own
    PROVE  d.source = e.source /\ d.source[1] = "rows"
<1>1. /\ d.u.with \in SUBSET Others /\ d.u.with # {} /\ e.u.with \in SUBSET Others /\ e.u.with # {}
      /\ Numbered(r, d) \/ \E who : Named(r, d, who)
      /\ Numbered(s, e) \/ \E who : Named(s, e, who)
  BY CounterpartIs
<1>2. \A S, who : S # {} => NumbersOf(S) # {<<"alias", who>>}
  <2>1. SUFFICES ASSUME NEW S, NEW who, NEW p \in S, NumbersOf(S) = {<<"alias", who>>} PROVE FALSE
    OBVIOUS
  <2>2. <<"number", p>> \in NumbersOf(S)
    BY DEF NumbersOf
  <2>3. <<"number", p>> # <<"alias", who>>
    OBVIOUS
  <2> QED BY <2>1, <2>2, <2>3
<1>3. CASE Numbered(r, d)
  <2>1. CASE Numbered(s, e)
    BY <1>3, <2>1, NumbersDiffer DEF Numbered
  <2>2. ASSUME NEW who, Named(s, e, who) PROVE FALSE
    BY <1>1, <1>2, <1>3, <2>2 DEF Numbered, Named
  <2> QED BY <1>1, <2>1, <2>2
<1>4. ASSUME NEW who, Named(r, d, who) PROVE d.source = e.source /\ d.source[1] = "rows"
  <2>1. CASE Numbered(s, e)
    BY <1>1, <1>2, <1>4, <2>1 DEF Numbered, Named
  <2>2. ASSUME NEW whom, Named(s, e, whom) PROVE d.source = e.source /\ d.source[1] = "rows"
    <3>1. who = whom
      <4>1. {<<"alias", who>>} = {<<"alias", whom>>}
        BY <1>4, <2>2 DEF Named
      <4>2. <<"alias", who>> = <<"alias", whom>>
        BY <4>1
      <4> QED BY <4>2
    <3>2. CASE d.u.with = {who} /\ who \in Others
      <4>1. ~(e.u.with = {whom} /\ whom \in Others)
        BY <3>1, <3>2
      <4>2. Unnamed(e, whom)
        BY <2>2, <4>1 DEF Named
      <4>3. whom \in {"unnamed"} \X Texts /\ whom \in Names
        BY <3>1, <3>2, <4>2 DEF Unnamed, Names
      <4> QED BY ONLY <4>3, OthersAssumption
    <3>3. CASE Unnamed(d, who)
      <4>1. CASE e.u.with = {whom} /\ whom \in Others
        <5>1. whom \in {"unnamed"} \X Texts /\ whom \in Names
          BY <3>1, <3>3, <4>1 DEF Unnamed, Names
        <5> QED BY ONLY <5>1, OthersAssumption
      <4>2. CASE Unnamed(e, whom)
        <5>1. PICK text, other : /\ d.source = <<"rows", text>> /\ who = <<"unnamed", text>>
                                 /\ e.source = <<"rows", other>> /\ whom = <<"unnamed", other>>
          BY <3>3, <4>2 DEF Unnamed
        <5>2. text = other
          <6>1. \A x, y : <<"unnamed", x>> = <<"unnamed", y>> => x = y
            OBVIOUS
          <6> QED BY ONLY <3>1, <5>1, <6>1, Zenon
        <5> QED BY <5>1, <5>2
      <4> QED BY <2>2, <4>1, <4>2 DEF Named
    <3> QED BY <1>4, <3>2, <3>3 DEF Named
  <2> QED BY <1>1, <2>1, <2>2
<1> QED BY <1>1, <1>3, <1>4

LEMMA CounterpartsTold == FormatsInv => OneCounterpart
<1>1. SUFFICES ASSUME FormatsInv, NEW i \in DOMAIN due, NEW j \in DOMAIN due
               PROVE  /\ Counterparts(i) # {} \/ due[i].split
                      /\ due[i].u.with # due[j].u.with /\ ~due[i].split /\ ~due[j].split =>
                            Counterparts(i) # Counterparts(j)
                      /\ due[i].u.with = due[j].u.with /\ due[i].source = due[j].source /\ ~due[i].split =>
                            Counterparts(i) = Counterparts(j)
  BY DEF OneCounterpart
<1>2. PICK r, d, s, e : r = records[i] /\ d = due[i] /\ s = records[j] /\ e = due[j]
  OBVIOUS
<1>3. Counterparts(i) = r.addresses \ Own /\ Counterparts(j) = s.addresses \ Own
  BY <1>2 DEF Counterparts, Own
<1>4. IsDue(r, d) /\ IsDue(s, e)
  BY <1>1, <1>2 DEF FormatsInv
<1>5. /\ d.source[1] = "rows" /\ d.source = e.source => d.u.with = e.u.with /\ d.split = e.split
      /\ d.source[1] = "rows" /\ d.source = e.source /\ ~d.split => r.addresses = s.addresses
  <2>1. RowsAlike(records, due)
    BY <1>1 DEF FormatsInv
  <2> QED BY <1>2, <2>1 DEF RowsAlike
<1>6. ASSUME ~d.split PROVE r.addresses \ Own # {}
  <2>1. d.u.with # {} /\ (Numbered(r, d) \/ \E who : Named(r, d, who))
    BY <1>4, <1>6, CounterpartIs
  <2>2. CASE Numbered(r, d)
    <3>1. PICK p : p \in d.u.with
      BY <2>1
    <3>2. <<"number", p>> \in NumbersOf(d.u.with)
      BY <3>1 DEF NumbersOf
    <3> QED BY <2>2, <3>2 DEF Numbered
  <2>3. CASE \E who : Named(r, d, who)
    BY <2>3 DEF Named
  <2> QED BY <2>1, <2>2, <2>3
<1>7. ASSUME d.u.with # e.u.with, ~d.split, ~e.split PROVE r.addresses \ Own # s.addresses \ Own
  <2>1. SUFFICES ASSUME r.addresses \ Own = s.addresses \ Own PROVE FALSE
    OBVIOUS
  <2>2. d.source = e.source /\ d.source[1] = "rows"
    BY <1>4, <1>7, <2>1, CounterpartsDiffer
  <2> QED BY <1>5, <1>7, <2>2
<1>8. ASSUME d.u.with = e.u.with, d.source = e.source, ~d.split PROVE r.addresses \ Own = s.addresses \ Own
  <2>1. CASE d.source[1] = "rows"
    BY <1>5, <1>8, <2>1
  <2>2. CASE d.source[1] # "rows"
    <3>1. ~ByRows(r, d) /\ ~ByRows(s, e)
      <4>1. \A t : <<"rows", t>>[1] = "rows"
        OBVIOUS
      <4> QED BY ONLY <1>8, <2>2, <4>1 DEF ByRows
    <3>2. (ByTheirNumbers(r, d) \/ ByTheirName(r, d)) /\ (ByTheirNumbers(s, e) \/ ByTheirName(s, e))
      BY <1>4, <3>1 DEF IsDue
    <3>3. CASE ByTheirNumbers(r, d)
      <4>1. d.source[1] \in {"backup", "chatdb"} /\ r.addresses \ Own = NumbersOf(d.u.with)
        BY <3>3 DEF ByTheirNumbers
      <4>2. ~ByTheirName(s, e)
        BY <1>8, <4>1 DEF ByTheirName
      <4>3. s.addresses \ Own = NumbersOf(e.u.with)
        BY <3>2, <4>2 DEF ByTheirNumbers
      <4> QED BY <1>8, <4>1, <4>3
    <3>4. CASE ByTheirName(r, d)
      <4>1. d.source[1] = "whatsapp" /\ \E p \in d.u.with : d.u.with = {p} /\ r.addresses = {<<"alias", p>>}
        BY <3>4 DEF ByTheirName
      <4>2. ~ByTheirNumbers(s, e)
        BY <1>8, <4>1 DEF ByTheirNumbers
      <4>3. \E p \in e.u.with : e.u.with = {p} /\ s.addresses = {<<"alias", p>>}
        BY <3>2, <4>2 DEF ByTheirName
      <4> QED BY <1>8, <4>1, <4>3
    <3> QED BY <3>2, <3>3, <3>4
  <2> QED BY <2>1, <2>2
<1> QED BY <1>2, <1>3, <1>6, <1>7, <1>8

LEMMA ToldOnceTold == FormatsInv => ToldOnce
<1>1. SUFFICES ASSUME FormatsInv PROVE ToldOnce
  OBVIOUS
<1>2. Len(records) = Len(due)
  BY <1>1 DEF FormatsInv
<1>3. \A i \in DOMAIN due :
         Cardinality({j \in DOMAIN due : due[j].u = due[i].u /\ due[j].source = due[i].source})
             <= Cardinality({k \in DOMAIN told : told[k] = due[i].u})
  <2>1. \A i \in DOMAIN due : Cardinality(Same(due, due[i])) <= Cardinality(Occurrences(due[i].u))
    BY <1>1 DEF FormatsInv
  <2> QED BY <2>1 DEF Same, Occurrences
<1>4. \A i \in DOMAIN due : AnswersTo(records[i], due[i].u)
  BY <1>1 DEF FormatsInv, IsDue
<1> QED BY ONLY <1>2, <1>3, <1>4, Zenon DEF ToldOnce, AnswersTo

LEMMA DatesTold == FormatsInv => ProvenIsRight /\ MissingIsCounted
BY DEF FormatsInv, IsDue, ProvenIsRight

-----------------------------------------------------------------------------
(* The theorems *)

LEMMA FormatsStart == FormatsInit => FormatsInv
<1>1. SUFFICES ASSUME FormatsInit PROVE FormatsInv
  OBVIOUS
<1>2. told = <<>> /\ due = <<>> /\ records = <<>> /\ offered = Nobody /\ outcome = "none"
  BY <1>1 DEF FormatsInit
<1>3. DOMAIN told = {} /\ DOMAIN due = {} /\ told \in Seq(Utterance)
  BY <1>2
<1>4. WellTold
  BY <1>3 DEF WellTold
<1>5. records \in Seq(Range(records)) /\ due \in Seq(Range(due)) /\ Len(records) = Len(due)
  BY <1>2
<1>6. RowsAlike(records, due)
  BY <1>3 DEF RowsAlike
<1>7. MissingIsCounted
  BY <1>2 DEF MissingIsCounted
<1> QED BY <1>2, <1>3, <1>4, <1>5, <1>6, <1>7 DEF FormatsInv

LEMMA FormatsStep ==
    ASSUME PlainNames, OwnName, FormatsInv, [FormatsNext]_formatVars
    PROVE  FormatsInv'
<1>1. CASE UNCHANGED formatVars
  <2>1. /\ told' = told /\ offered' = offered /\ of' = of /\ seen' = seen /\ records' = records /\ due' = due
        /\ outcome' = outcome /\ said' = said /\ missing' = missing
    BY <1>1 DEF formatVars
  <2>2. offered' # Nobody => Offer'
    BY <2>1, OfferStays DEF FormatsInv
  <2>3. MissingIsCounted'
    BY <2>1 DEF FormatsInv, MissingIsCounted
  <2> QED BY <2>1, <2>2, <2>3, QuietHolds
<1>2. ASSUME NEW u \in Utterances, Say(u) PROVE FormatsInv'
  BY <1>2, SayHolds
<1>3. CASE Export
  <2>1. seen' = seen /\ records' = records /\ due' = due /\ outcome' = "none"
    BY <1>3 DEF Export, ExportChat, ExportRows, ExportBackup, ExportMac, Offered
  <2>2. Offer' /\ told' = told
    BY <1>3, ExportOffers
  <2>3. MissingIsCounted'
    BY <2>1 DEF MissingIsCounted
  <2> QED BY <2>1, <2>2, <2>3, QuietHolds
<1>4. CASE Import
  <2>1. offered # Nobody
    BY <1>4 DEF Import
  <2>2. ASSUME NEW given \in Given, NEW forced \in Orders \cup {Nobody}, ImportChat(given, forced) PROVE FormatsInv'
    <3>1. given \in {Myself, Nobody}
      BY DEF OwnName
    <3> QED BY <2>1, <2>2, <3>1, ChatHolds DEF PlainNames
  <2>3. ASSUME NEW given \in {Myself, Nobody}, ImportRows(given) PROVE FormatsInv'
    BY <2>1, <2>3, RowsHolds
  <2>4. CASE ImportBackup
    BY <2>1, <2>4, BackupHolds
  <2>5. ASSUME NEW live \in BOOLEAN, NEW beta \in BOOLEAN, NEW want \in Wishes, ImportMac(live, beta, want)
        PROVE  FormatsInv'
    BY <2>1, <2>5, MacHolds
  <2> QED BY <1>4, <2>2, <2>3, <2>4, <2>5 DEF Import, Wishes
<1>5. CASE PutAway
  <2>1. /\ told' = told /\ seen' = seen /\ records' = records /\ due' = due /\ outcome' = "none" /\ offered' = Nobody
    BY <1>5 DEF PutAway
  <2>2. MissingIsCounted'
    BY <2>1 DEF MissingIsCounted
  <2> QED BY <2>1, <2>2, QuietHolds
<1> QED BY <1>1, <1>2, <1>3, <1>4, <1>5 DEF FormatsNext

LEMMA FormatsHold ==
    ASSUME PlainNames, OwnName
    PROVE  IntakeSpec => []FormatsInv
<1>1. IntakeInit => FormatsInv
  BY FormatsStart DEF IntakeInit
<1>2. [IntakeNext]_intakeVars => [FormatsNext]_formatVars
  BY DEF IntakeNext, intakeVars
<1>3. FormatsInv /\ [IntakeNext]_intakeVars => FormatsInv'
  BY <1>2, FormatsStep
<1> QED BY <1>1, <1>3, PTL DEF IntakeSpec

\* Whatever is said and however it is exported and imported, in whichever
\* order, form and number of files: each record has the side and all the words
\* of what was said, a reaction is one, and nothing is recorded more often than
\* it was said, under whatever name its conversation is asked for
\* (ingest/index.ts ingestFile, the importers, normalize.ts).
THEOREM WhatIsSaidIsRecordedOnce ==
    ASSUME PlainNames, OwnName
    PROVE  IntakeSpec => []ToldOnce
<1>1. FormatsInv => ToldOnce
  BY ToldOnceTold
<1> QED BY FormatsHold, <1>1, PTL

\* Records of one file are under one counterpart exactly if they are of one
\* conversation, and no two conversations share one in any files, named,
\* unnamed or by number (generic.ts correspondent, normalize.ts addresses).
THEOREM CounterpartsAreConversations ==
    ASSUME PlainNames, OwnName
    PROVE  IntakeSpec => []OneCounterpart
<1>1. FormatsInv => OneCounterpart
  BY CounterpartsTold
<1> QED BY FormatsHold, <1>1, PTL

\* The dates of a chat that proves their order, or is read in the order it was
\* written in, and of every other file, are those of what was said, in seconds,
\* milliseconds or nanoseconds (whatsapp.ts inferDateOrder, toMs; imessage.ts
\* appleDateToMs).
THEOREM ProvenDatesAreRight ==
    ASSUME PlainNames, OwnName
    PROVE  IntakeSpec => []ProvenIsRight
<1>1. FormatsInv => ProvenIsRight
  BY DatesTold
<1> QED BY FormatsHold, <1>1, PTL

\* The result of an import counts what the file holds and the archive does not
\* get: rows that do not tell enough, messages without a date (generic.ts
\* skipped, imessage.ts scanIMessage).
THEOREM NothingGoesUncounted ==
    ASSUME PlainNames, OwnName
    PROVE  IntakeSpec => []MissingIsCounted
<1>1. FormatsInv => MissingIsCounted
  BY DatesTold
<1> QED BY FormatsHold, <1>1, PTL
=============================================================================
