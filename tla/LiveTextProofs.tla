---------------------------- MODULE LiveTextProofs ----------------------------
(***************************************************************************)
(* Proofs about LiveText, for every speech, every size of the reconciler's *)
(* window, every way to cut the speech into chunks and every fault.        *)
(*                                                                         *)
(* Placed says who inserts and how far the recording is.  On top of it     *)
(* Lent follows the user's clipboard through a paste; Typed and Settled    *)
(* compare what the window shows, what the reconciler knows and what the   *)
(* result says; Followed compares what the reconciler knows with what was  *)
(* said.                                                                   *)
(***************************************************************************)
EXTENDS LiveText, FiniteSetTheorems, SequenceTheorems, WellFoundedInduction, TLAPS

-----------------------------------------------------------------------------
(***************************************************************************)
(* The inductive invariant                                                 *)
(***************************************************************************)

Contents == [kind : {"user", "image", "fragment", "transcript"}, words : Seq(Nat)]
Pastes == [who : {"nobody", "fragment", "transcript"}, words : Seq(Nat), previous : Contents]
Results == [inserted : BOOLEAN, copied : BOOLEAN]

\* The values that are words, or hold some.
WordsTypeOK ==
  /\ chunk \in Seq(Nat) /\ stable \in Seq(Nat) /\ text \in Seq(Nat)
  /\ target \in Seq(Nat) /\ copied \in Seq(Nat)
  /\ paste \in Pastes /\ clipboard \in Contents /\ result \in Results

\* An insertion belongs to the live worker or to the final pass, which comes
\* after the worker has ended; text is what was heard.
Inserting ==
  /\ worker = "typing" <=> at # "free" /\ paste.who = "fragment"
  /\ final = "typing" <=> at # "free" /\ paste.who = "transcript"
  /\ at # "free" => paste.who # "nobody" /\ paste.words # <<>>
  /\ at = "protected" => paste.who = "transcript"
Phases ==
  /\ source = "open" => final = "off"
  /\ source = "stopped" => worker = "ended" /\ final # "off"
  /\ source = "cancelled" => final = "done"
  /\ final \in {"transcribe", "deliver", "typing", "both"} => heard > 0
  /\ paused => worker = "ended"
  /\ source = "stopped" /\ heard > 0 /\ final # "transcribe" => text = Upto(speech, heard)
Placed == TypeOK /\ WordsTypeOK /\ Inserting /\ Phases

\* What the clipboard and an insertion that borrowed it hold, as long as
\* nothing was copied for the user and no paste was disturbed.
Users(content) == content = Image \/ content = UserText(copies)
Lent ==
  copied = <<>> /\ ~broken /\ ~raced =>
    /\ at \notin {"key", "look", "restore"} => Users(clipboard)
    /\ at = "copy" => paste.previous = clipboard
    /\ at \in {"key", "look"} =>
         \/ clipboard = UserText(copies)
         \/ clipboard = Ours(paste.who, paste.words) /\ Users(paste.previous)
    /\ at = "restore" => Users(paste.previous)

\* What was typed so far is what the reconciler knows, but for the chunk that is
\* being inserted.
Reached == at \in {"typed", "look", "restore"}
Typed ==
  /\ source # "cancelled" /\ ~paused /\ final \in {"off", "transcribe", "deliver"} =>
       IF worker = "typing" /\ ~Reached THEN target \o paste.words = stable ELSE target = stable
  /\ Reached => target # <<>>
  /\ lastResult => target # <<>>
  /\ ~paused /\ stable # <<>> /\ worker # "typing" => lastResult

\* What the final insertion has done, and what its result may say.
AllTyped == IF paused THEN IsSuffix(text, target) ELSE target = stable \o Remaining
NoneTyped == ~paused => target = stable
Settled ==
  /\ final \in {"off", "transcribe", "deliver", "typing"} => result = Nothing /\ copied = <<>>
  /\ final = "typing" =>
       /\ mode # "clipboard" /\ paste.words = Remaining
       /\ IF Reached THEN AllTyped ELSE NoneTyped
  /\ final \in {"both", "done"} /\ source = "stopped" /\ heard > 0 =>
       /\ NoneTyped \/ AllTyped
       /\ result.inserted => target # <<>> /\ (mode # "clipboard" => AllTyped)
       /\ result.copied => \/ copied = text
                           \/ copied = Remaining /\ copied # <<>> /\ NoneTyped

\* The words in known, heard up to `from', are words that were said or noise;
\* behind the latest of them there is only noise, of no more than `wrong' words.
Ordered(known, from, wrong) ==
  \E p \in 0..Len(known) :
    /\ Len(known) - p <= wrong
    /\ \A i \in (p + 1)..Len(known) : known[i] \in Noises
    /\ \A i \in 1..p :
         \/ known[i] \in Noises
         \/ \E j \in 1..from, k \in 1..from :
              j <= k /\ known[i] = speech[j] /\ known[p] = speech[k]
Said(from, to) == SubSeq(speech, from + 1, to)
Exactly(from) == Distinct /\ misheard = 0 /\ Repeats <= Overlap => stable = Said(0, from)

\* The reconciler knows what was heard up to the last chunk, and a chunk that
\* waits for it is what was said since, after words it repeats.
Awaits(from, back) ==
  \/ /\ chunk = Said(from - back, offset)
     /\ Ordered(stable, from, misheard) /\ Exactly(from)
  \/ \E i \in (back + 1)..(offset - from + back), noise \in Noises :
       /\ chunk = [Said(from - back, offset) EXCEPT ![i] = noise]
       /\ misheard > 0 /\ Ordered(stable, from, misheard - 1)
Followed ==
  source # "cancelled" =>
    IF worker = "insert"
    THEN \E from \in 0..(offset - 1), back \in 0..Repeats : back <= from /\ Awaits(from, back)
    ELSE Ordered(stable, offset, misheard) /\ Exactly(offset)

LiveTextInv == Placed /\ Lent /\ Typed /\ Settled /\ Followed

-----------------------------------------------------------------------------
(***************************************************************************)
(* The operators of the reconciler                                         *)
(***************************************************************************)

\* The beginning and the end of a sequence.
LEMMA UptoWithin ==
  ASSUME NEW s \in Seq(Nat), NEW n \in 0..Len(s)
  PROVE  /\ Upto(s, n) = SubSeq(s, 1, n) /\ Upto(s, n) \in Seq(Nat) /\ Len(Upto(s, n)) = n
         /\ \A i \in 1..n : Upto(s, n)[i] = s[i]
<1>1. Len(s) \in Nat /\ \A i \in 1..Len(s) : s[i] \in Nat
  BY ElementOfSeq, LenProperties
<1>2. Upto(s, n) = SubSeq(s, 1, n)
  BY <1>1 DEF Upto
<1>3. n \in Int /\ 1 \in Int /\ \A i \in 1..n : s[i] \in Nat
  BY <1>1
<1>4. /\ SubSeq(s, 1, n) \in Seq(Nat) /\ Len(SubSeq(s, 1, n)) = IF 1 <= n THEN n - 1 + 1 ELSE 0
      /\ \A i \in 1..(n - 1 + 1) : SubSeq(s, 1, n)[i] = s[1 + i - 1]
  BY <1>3, SubSeqProperties
<1>5. QED
  BY <1>1, <1>2, <1>4

LEMMA LastOfWithin ==
  ASSUME NEW s \in Seq(Nat), NEW n \in 0..Len(s)
  PROVE  /\ LastOf(s, n) = SubSeq(s, Len(s) - n + 1, Len(s))
         /\ LastOf(s, n) \in Seq(Nat) /\ Len(LastOf(s, n)) = n
         /\ \A i \in 1..n : LastOf(s, n)[i] = s[Len(s) - n + i]
<1>1. Len(s) \in Nat /\ \A i \in 1..Len(s) : s[i] \in Nat
  BY ElementOfSeq, LenProperties
<1>2. LastOf(s, n) = SubSeq(s, Len(s) - n + 1, Len(s))
  <2>1. (IF n < Len(s) THEN Len(s) - n ELSE 0) + 1 = Len(s) - n + 1
    BY <1>1
  <2>2. LastOf(s, n) = SubSeq(s, (IF n < Len(s) THEN Len(s) - n ELSE 0) + 1, Len(s))
    BY DEF LastOf
  <2>3. QED
    BY <2>1, <2>2
<1> DEFINE b == Len(s) - n + 1
<1>3. b \in Int /\ Len(s) \in Int /\ \A i \in b..Len(s) : s[i] \in Nat
  BY <1>1
<1> HIDE DEF b
<1>4. /\ SubSeq(s, b, Len(s)) \in Seq(Nat)
      /\ Len(SubSeq(s, b, Len(s))) = IF b <= Len(s) THEN Len(s) - b + 1 ELSE 0
      /\ \A i \in 1..(Len(s) - b + 1) : SubSeq(s, b, Len(s))[i] = s[b + i - 1]
  BY <1>3, SubSeqProperties
<1>5. LastOf(s, n) \in Seq(Nat) /\ Len(LastOf(s, n)) = n
  BY <1>1, <1>2, <1>4 DEF b
<1>6. ASSUME NEW i \in 1..n PROVE LastOf(s, n)[i] = s[Len(s) - n + i]
  <2>1. i \in 1..(Len(s) - b + 1) /\ b + i - 1 = Len(s) - n + i
    BY <1>1 DEF b
  <2>2. QED
    BY <1>2, <1>4, <2>1 DEF b
<1>7. QED
  BY <1>2, <1>5, <1>6

\* A beginning or an end that is longer than the sequence is all of it.
LEMMA AllOfIt ==
  ASSUME NEW s \in Seq(Nat), NEW n \in Nat, n >= Len(s)
  PROVE  Upto(s, n) = s /\ LastOf(s, n) = s
<1>1. Len(s) \in Nat
  BY LenProperties
<1>2. Upto(s, n) = SubSeq(s, 1, Len(s)) /\ LastOf(s, n) = SubSeq(s, 1, Len(s))
  <2>1. (IF n < Len(s) THEN n ELSE Len(s)) = Len(s) /\ (IF n < Len(s) THEN Len(s) - n ELSE 0) + 1 = 1
    BY <1>1
  <2>2. /\ Upto(s, n) = SubSeq(s, 1, IF n < Len(s) THEN n ELSE Len(s))
        /\ LastOf(s, n) = SubSeq(s, (IF n < Len(s) THEN Len(s) - n ELSE 0) + 1, Len(s))
    BY DEF Upto, LastOf
  <2>3. QED
    BY <2>1, <2>2
<1>3. QED
  BY <1>2, SubSeqFull

\* The greatest member of a set of numbers, where it is known and where only a
\* bound is.
LEMMA MaxIs ==
  ASSUME NEW I, I \subseteq Nat, NEW x \in I, \A y \in I : y <= x
  PROVE  Max(I) = x
<1>1. \A y \in I : x >= y
  OBVIOUS
<1>2. Max(I) \in I /\ \A y \in I : Max(I) >= y
  BY <1>1 DEF Max
<1> HIDE DEF Max
<1>3. Max(I) \in Nat /\ x \in Nat /\ x >= Max(I) /\ Max(I) >= x
  BY <1>1, <1>2
<1>4. QED
  BY <1>3

LEMMA MaxOfBounded ==
  ASSUME NEW n \in Nat, NEW I, I \subseteq 0..n, I # {}
  PROVE  Max(I) \in I /\ \A y \in I : y <= Max(I)
<1> DEFINE T == {(i + 1)..n : i \in I}
<1>1. T \subseteq FiniteSubsetsOf(Nat) /\ T # {}
  <2>1. \A i \in I : i + 1 \in Int /\ n \in Int /\ (i + 1)..n \subseteq Nat
    OBVIOUS
  <2>2. \A i \in I : IsFiniteSet((i + 1)..n)
    BY <2>1, FS_Interval
  <2>3. QED
    BY <2>1, <2>2 DEF FiniteSubsetsOf
<1>2. PICK x \in T : \A y \in T : ~(<<y, x>> \in StrictSubsetOrdering(Nat))
  BY <1>1, FS_StrictSubsetOrderingWellFounded, WFMin
<1>3. PICK i \in I : x = (i + 1)..n
  BY <1>2
<1>4. ASSUME NEW k \in I, k > i PROVE FALSE
  <2>1. ~(<<(k + 1)..n, (i + 1)..n>> \in StrictSubsetOrdering(Nat))
    BY <1>2, <1>3
  <2>2. /\ (k + 1)..n \subseteq (i + 1)..n /\ k \in (i + 1)..n /\ k \notin (k + 1)..n
        /\ (k + 1)..n \subseteq Nat /\ (i + 1)..n \subseteq Nat
    BY <1>4
  <2>3. QED
    BY <2>1, <2>2 DEF StrictSubsetOrdering
<1>5. \A k \in I : k <= i
  BY <1>4
<1>6. QED
  <2>0. I \subseteq Nat
    OBVIOUS
  <2>1. Max(I) = i
    BY <2>0, <1>5, MaxIs
  <2>2. QED
    BY <1>5, <2>1

\* Two texts, one after the other.
LEMMA ConcatIs ==
  ASSUME NEW s \in Seq(Nat), NEW t \in Seq(Nat)
  PROVE  /\ s \o t \in Seq(Nat) /\ Len(s \o t) = Len(s) + Len(t)
         /\ \A i \in 1..(Len(s) + Len(t)) : (s \o t)[i] = IF i <= Len(s) THEN s[i] ELSE t[i - Len(s)]
BY ConcatProperties

\* A sequence ends in what was appended to it.
LEMMA ConcatEnds ==
  ASSUME NEW S, NEW s \in Seq(S), NEW t \in Seq(S)
  PROVE  IsSuffix(t, s \o t)
<1> DEFINE w == s \o t  rt == Reverse(t)  rw == Reverse(w)
<1>1. /\ w \in Seq(S) /\ Len(w) = Len(s) + Len(t) /\ Len(s) \in Nat /\ Len(t) \in Nat
      /\ \A i \in 1..Len(w) : w[i] = IF i <= Len(s) THEN s[i] ELSE t[i - Len(s)]
  BY ConcatProperties, LenProperties
<1>2. \A i \in 1..Len(w) : w[i] \in S
  BY <1>1, ElementOfSeq
<1>3. \A i \in 1..Len(t) : t[i] \in S
  BY ElementOfSeq
<1> HIDE DEF w
<1>4. /\ rt \in Seq(S) /\ Len(rt) = Len(t) /\ \A i \in 1..Len(t) : rt[i] = t[(Len(t) - i) + 1]
  <2>1. rt \in [1..Len(t) -> S]
    BY <1>1, <1>3 DEF Reverse
  <2>2. QED
    BY <1>1, <2>1, SeqDef DEF Reverse
<1>5. /\ rw \in Seq(S) /\ Len(rw) = Len(w) /\ \A i \in 1..Len(w) : rw[i] = w[(Len(w) - i) + 1]
  <2>1. rw \in [1..Len(w) -> S]
    BY <1>1, <1>2 DEF Reverse
  <2>2. QED
    BY <1>1, <2>1, SeqDef DEF Reverse
<1>6. \A i \in 1..Len(t) : rw[i] = rt[i]
  <2> SUFFICES ASSUME NEW i \in 1..Len(t) PROVE rw[i] = rt[i]
    OBVIOUS
  <2>1. i \in 1..Len(w) /\ (Len(w) - i) + 1 \in 1..Len(w) /\ ~((Len(w) - i) + 1 <= Len(s))
    BY <1>1
  <2>2. ((Len(w) - i) + 1) - Len(s) = (Len(t) - i) + 1
    BY <1>1
  <2>3. w[(Len(w) - i) + 1] = t[(Len(t) - i) + 1]
    BY <1>1, <2>1, <2>2
  <2>4. QED
    BY <1>4, <1>5, <2>1, <2>3
<1> HIDE DEF rt, rw
<1>7. SubSeq(rt, 1, Len(rt)) = SubSeq(rw, 1, Len(rt))
  <2>1. 1 \in Int /\ Len(t) \in Int /\ (\A i \in 1..Len(t) : rt[i] \in S) /\ \A i \in 1..Len(t) : rw[i] \in S
    BY <1>1, <1>4, <1>6, ElementOfSeq
  <2>2. /\ SubSeq(rt, 1, Len(t)) \in Seq(S) /\ SubSeq(rw, 1, Len(t)) \in Seq(S)
        /\ Len(SubSeq(rt, 1, Len(t))) = Len(SubSeq(rw, 1, Len(t)))
        /\ Len(SubSeq(rt, 1, Len(t))) = Len(t)
        /\ \A i \in 1..Len(t) : SubSeq(rt, 1, Len(t))[i] = rt[i] /\ SubSeq(rw, 1, Len(t))[i] = rw[i]
    BY <1>1, <2>1, SubSeqProperties
  <2>3. QED
    BY <1>4, <1>6, <2>2, SeqEqual
<1>8. IsPrefix(rt, rw)
  BY <1>1, <1>4, <1>5, <1>7 DEF IsPrefix
<1>9. QED
  BY <1>8 DEF IsSuffix, rt, rw, w

\* What two texts have in common at their beginning.
LEMMA CommonPrefixIs ==
  ASSUME NEW left \in Seq(Nat), NEW right \in Seq(Nat), NEW n, n = CommonPrefix(left, right)
  PROVE  /\ n \in 0..Len(left) /\ n <= Len(right) /\ Upto(left, n) = Upto(right, n)
         /\ \A m \in 0..Len(left) : m <= Len(right) /\ Upto(left, m) = Upto(right, m) => m <= n
<1> DEFINE I == {m \in 0..Len(left) : m <= Len(right) /\ Upto(left, m) = Upto(right, m)}
<1>1. Len(left) \in Nat /\ Len(right) \in Nat
  BY LenProperties
<1>2. Upto(left, 0) = <<>> /\ Upto(right, 0) = <<>>
  <2>1. 0 \in 0..Len(left) /\ 0 \in 0..Len(right)
    BY <1>1
  <2>2. /\ Upto(left, 0) \in Seq(Nat) /\ Len(Upto(left, 0)) = 0
        /\ Upto(right, 0) \in Seq(Nat) /\ Len(Upto(right, 0)) = 0
    BY <2>1, UptoWithin
  <2>3. QED
    BY <2>2, EmptySeq
<1>3. 0 \in I /\ I \subseteq 0..Len(left)
  BY <1>1, <1>2
<1>4. n = Max(I)
  BY DEF CommonPrefix
<1> HIDE DEF I
<1>5. n \in I /\ \A m \in I : m <= n
  BY <1>1, <1>3, <1>4, MaxOfBounded
<1>6. QED
  BY <1>5 DEF I

\* The words two texts share at their beginning are the same.
LEMMA CommonWords ==
  ASSUME NEW left \in Seq(Nat), NEW right \in Seq(Nat)
  PROVE  \A i \in 1..CommonPrefix(left, right) : left[i] = right[i]
<1> DEFINE n == CommonPrefix(left, right)
<1>1. Len(left) \in Nat /\ Len(right) \in Nat
  BY LenProperties
<1>2. n \in 0..Len(left) /\ n <= Len(right) /\ Upto(left, n) = Upto(right, n)
  BY CommonPrefixIs
<1> HIDE DEF n
<1>3. n \in 0..Len(left) /\ n \in 0..Len(right)
  BY <1>1, <1>2
<1>4. \A i \in 1..n : Upto(left, n)[i] = left[i] /\ Upto(right, n)[i] = right[i]
  BY <1>3, UptoWithin
<1>5. QED
  BY <1>2, <1>4 DEF n

\* Two texts that begin with the same word have a beginning in common.
LEMMA CommonStart ==
  ASSUME NEW left \in Seq(Nat), NEW right \in Seq(Nat),
         Len(left) > 0, Len(right) > 0, left[1] = right[1]
  PROVE  CommonPrefix(left, right) > 0
<1>1. Len(left) \in Nat /\ Len(right) \in Nat
  BY LenProperties
<1>2. 1 \in 0..Len(left) /\ 1 \in 0..Len(right)
  BY <1>1
<1>3. /\ Upto(left, 1) \in Seq(Nat) /\ Len(Upto(left, 1)) = 1
      /\ Upto(right, 1) \in Seq(Nat) /\ Len(Upto(right, 1)) = 1
      /\ \A i \in 1..1 : Upto(left, 1)[i] = left[i] /\ Upto(right, 1)[i] = right[i]
  BY <1>2, UptoWithin
<1>4. Upto(left, 1) = Upto(right, 1)
  <2>1. \A i \in 1..1 : Upto(left, 1)[i] = Upto(right, 1)[i]
    BY <1>3
  <2>2. QED
    BY <1>3, <2>1, SeqEqual
<1>5. 1 \in 0..Len(left) /\ 1 <= Len(right)
  BY <1>1
<1>6. CommonPrefix(left, right) \in 0..Len(left) /\ 1 <= CommonPrefix(left, right)
  BY <1>4, <1>5, CommonPrefixIs
<1>7. QED
  BY <1>1, <1>6

\* The beginning of a text has all of itself in common with it.
LEMMA CommonPrefixOfPrefix ==
  ASSUME NEW words \in Seq(Nat), NEW n \in 0..Len(words)
  PROVE  /\ SubSeq(words, 1, n) \in Seq(Nat) /\ Len(SubSeq(words, 1, n)) = n
         /\ CommonPrefix(SubSeq(words, 1, n), words) = n
<1> DEFINE known == SubSeq(words, 1, n)
<1>1. Len(words) \in Nat /\ n \in Nat
  BY LenProperties
<1>3. known = Upto(words, n)
  BY UptoWithin
<1>4. known \in Seq(Nat) /\ Len(known) = n /\ \A i \in 1..n : known[i] = words[i]
  BY <1>3, UptoWithin
<1> HIDE DEF known
<1>5. Upto(known, n) = known
  <2>1. n \in 0..Len(known)
    BY <1>1, <1>4
  <2>2. Upto(known, n) \in Seq(Nat) /\ Len(Upto(known, n)) = n /\ \A i \in 1..n : Upto(known, n)[i] = known[i]
    BY <1>4, <2>1, UptoWithin
  <2>3. QED
    BY <1>4, <2>2, SeqEqual
<1>6. n \in 0..Len(known) /\ n <= Len(words) /\ Upto(known, n) = Upto(words, n)
  BY <1>1, <1>3, <1>4, <1>5
<1>7. CommonPrefix(known, words) \in 0..Len(known) /\ n <= CommonPrefix(known, words)
  BY <1>4, <1>6, CommonPrefixIs
<1>8. CommonPrefix(known, words) = n
  BY <1>1, <1>4, <1>7
<1>9. QED
  BY <1>4, <1>8 DEF known

\* The rest of a text after its first n words.
LEMMA RestIs ==
  ASSUME NEW words \in Seq(Nat), NEW n \in 0..Len(words), NEW rest, rest = LastOf(words, Len(words) - n)
  PROVE  /\ rest \in Seq(Nat) /\ Len(rest) = Len(words) - n
         /\ \A i \in 1..(Len(words) - n) : rest[i] = words[n + i]
<1> DEFINE m == Len(words) - n
<1>1. Len(words) \in Nat /\ m \in 0..Len(words) /\ Len(words) - m = n
  BY LenProperties
<1> HIDE DEF m
<1>2. /\ LastOf(words, m) \in Seq(Nat) /\ Len(LastOf(words, m)) = m
      /\ \A i \in 1..m : LastOf(words, m)[i] = words[Len(words) - m + i]
  BY <1>1, LastOfWithin
<1>3. QED
  BY <1>1, <1>2 DEF m

\* The beginning and the rest are the whole.
LEMMA BeginningAndRest ==
  ASSUME NEW words \in Seq(Nat), NEW n \in 0..Len(words)
  PROVE  SubSeq(words, 1, n) \o LastOf(words, Len(words) - n) = words
<1> DEFINE known == SubSeq(words, 1, n)  rest == LastOf(words, Len(words) - n)
<1>1. Len(words) \in Nat /\ n \in Nat
  BY LenProperties
<1>2. known \in Seq(Nat) /\ Len(known) = n /\ \A i \in 1..n : known[i] = words[i]
  <2>2. known = Upto(words, n)
    BY UptoWithin
  <2>3. QED
    BY <2>2, UptoWithin
<1>3. /\ rest \in Seq(Nat) /\ Len(rest) = Len(words) - n
      /\ \A i \in 1..(Len(words) - n) : rest[i] = words[n + i]
  BY RestIs
<1> HIDE DEF known, rest
<1>4. /\ known \o rest \in Seq(Nat) /\ Len(known \o rest) = Len(words)
      /\ \A i \in 1..Len(words) : (known \o rest)[i] = IF i <= n THEN known[i] ELSE rest[i - n]
  <2>1. /\ known \o rest \in Seq(Nat) /\ Len(known \o rest) = Len(known) + Len(rest)
        /\ \A i \in 1..(Len(known) + Len(rest)) :
             (known \o rest)[i] = IF i <= Len(known) THEN known[i] ELSE rest[i - Len(known)]
    BY <1>2, <1>3, ConcatIs
  <2>2. Len(known) + Len(rest) = Len(words) /\ Len(known) = n
    BY <1>1, <1>2, <1>3
  <2>3. QED
    BY <2>1, <2>2
<1>5. ASSUME NEW i \in 1..Len(words) PROVE (known \o rest)[i] = words[i]
  <2>1. CASE i <= n
    BY <1>2, <1>4, <2>1
  <2>2. CASE ~(i <= n)
    <3>1. i - n \in 1..(Len(words) - n) /\ n + (i - n) = i
      BY <1>1, <2>2
    <3>2. QED
      BY <1>3, <1>4, <2>2, <3>1
  <2>3. QED
    BY <2>1, <2>2
<1>6. known \o rest = words
  BY <1>4, <1>5, SeqEqual
<1>7. QED
  BY <1>6 DEF known, rest

\* A window over a sequence shows all of it or as many words as it is wide.
LEMMA WindowIs ==
  ASSUME NEW s \in Seq(Nat), NEW n \in Nat
  PROVE  \E m \in 0..Len(s) : /\ m <= n /\ (n <= Len(s) => m = n) /\ (n >= Len(s) => m = Len(s))
                              /\ LastOf(s, n) = LastOf(s, m) /\ Upto(s, n) = Upto(s, m)
<1>1. Len(s) \in Nat
  BY LenProperties
<1>2. CASE n <= Len(s)
  BY <1>1, <1>2
<1>3. CASE ~(n <= Len(s))
  <2>1. n >= Len(s) /\ Len(s) \in 0..Len(s) /\ Len(s) <= n /\ Len(s) >= Len(s) /\ Len(s) \in Nat
    BY <1>1, <1>3
  <2>2. LastOf(s, n) = s /\ Upto(s, n) = s /\ LastOf(s, Len(s)) = s /\ Upto(s, Len(s)) = s
    BY <2>1, AllOfIt
  <2>3. QED
    BY <1>3, <2>1, <2>2
<1>4. QED
  BY <1>2, <1>3

\* reconcile_final always returns an end of the text.
LEMMA FinalType ==
  ASSUME NEW known \in Seq(Nat), NEW words \in Seq(Nat)
  PROVE  \E e \in 0..Len(words) : ReconcileFinal(known, words) = LastOf(words, Len(words) - e)
<1> DEFINE prefix == CommonPrefix(known, words)
           ends == AlignedEnds(LastOf(known, Overlap), words, prefix)
           end == Max({prefix} \cup ends)
<1>1. Len(words) \in Nat /\ Len(known) \in Nat
  BY LenProperties
<1>2. prefix \in 0..Len(known) /\ prefix <= Len(words)
  BY CommonPrefixIs
<1>3. ends \subseteq 0..Len(words)
  BY <1>1, <1>2 DEF AlignedEnds
<1>4. /\ ReconcileFinal(known, words) =
           IF known = <<>> THEN words
           ELSE IF prefix = Len(known) THEN LastOf(words, Len(words) - prefix)
           ELSE IF end = 0 THEN <<>> ELSE LastOf(words, Len(words) - end)
  BY DEF ReconcileFinal
<1>5. LastOf(words, Len(words) - 0) = words /\ LastOf(words, Len(words) - Len(words)) = <<>>
  <2>1. Len(words) - 0 = Len(words) /\ Len(words) - Len(words) = 0 /\ Len(words) >= Len(words) /\ 0 \in 0..Len(words)
    BY <1>1
  <2>2. LastOf(words, 0) \in Seq(Nat) /\ Len(LastOf(words, 0)) = 0
    BY <2>1, LastOfWithin
  <2>3. QED
    BY <1>1, <2>1, <2>2, AllOfIt, EmptySeq
<1> HIDE DEF prefix, ends
<1>6. end \in 0..Len(words)
  <2>1. {prefix} \cup ends \subseteq 0..Len(words) /\ {prefix} \cup ends # {}
    BY <1>1, <1>2, <1>3
  <2>2. QED
    BY <1>1, <2>1, MaxOfBounded
<1> HIDE DEF end
<1>7. 0 \in 0..Len(words) /\ Len(words) \in 0..Len(words) /\ prefix \in 0..Len(words)
  BY <1>1, <1>2
<1>8. QED
  BY <1>4, <1>5, <1>6, <1>7

\* When what was typed is the beginning of the text, the rest completes it.
LEMMA FinalCompletes ==
  ASSUME NEW words \in Seq(Nat), NEW n \in 0..Len(words), NEW known, known = SubSeq(words, 1, n)
  PROVE  known \o ReconcileFinal(known, words) = words
<1>1. Len(words) \in Nat
  BY LenProperties
<1>2. known \in Seq(Nat) /\ Len(known) = n /\ CommonPrefix(known, words) = n
  BY CommonPrefixOfPrefix
<1>3. known \o LastOf(words, Len(words) - n) = words
  BY BeginningAndRest
<1>4. CASE known = <<>>
  BY <1>4, ConcatEmptySeq DEF ReconcileFinal
<1>5. CASE known # <<>>
  BY <1>2, <1>3, <1>5 DEF ReconcileFinal
<1>6. QED
  BY <1>4, <1>5

\* The end of a text that begins with its k-th word.
LEMMA FromIs ==
  ASSUME NEW words \in Seq(Nat), NEW k \in 1..Len(words)
  PROVE  /\ LastOf(words, Len(words) - k + 1) \in Seq(Nat)
         /\ Len(LastOf(words, Len(words) - k + 1)) = Len(words) - k + 1
         /\ Len(LastOf(words, Len(words) - k + 1)) > 0
         /\ LastOf(words, Len(words) - k + 1)[1] = words[k]
<1> DEFINE c == Len(words) - k + 1
<1>1. c \in 0..Len(words) /\ 1 \in 1..c /\ Len(words) - c + 1 = k /\ c > 0
  BY LenProperties
<1> HIDE DEF c
<1>2. /\ LastOf(words, c) \in Seq(Nat) /\ Len(LastOf(words, c)) = c
      /\ \A j \in 1..c : LastOf(words, c)[j] = words[Len(words) - c + j]
  BY <1>1, LastOfWithin
<1>3. QED
  BY <1>1, <1>2 DEF c

\* A word among the last that were typed is behind the place where the final
\* pass goes on.
LEMMA FinalGoesOn ==
  ASSUME NEW words \in Seq(Nat), NEW known \in Seq(Nat),
         \A a, b \in 1..Len(words) : words[a] = words[b] => a = b,
         NEW i \in 1..Len(known), Len(known) - i < Overlap,
         NEW k \in 1..Len(words), known[i] = words[k]
  PROVE  \E e \in k..Len(words) : ReconcileFinal(known, words) = LastOf(words, Len(words) - e)
<1> DEFINE prefix == CommonPrefix(known, words)
           tail == LastOf(known, Overlap)
           ends == AlignedEnds(tail, words, prefix)
           end == Max({prefix} \cup ends)
<1>1. Len(words) \in Nat /\ Len(known) \in Nat /\ Overlap \in Nat
  BY LenProperties, LiveTextAssumption
<1>2. prefix \in 0..Len(known) /\ prefix <= Len(words) /\ \A j \in 1..prefix : known[j] = words[j]
  BY CommonPrefixIs, CommonWords
<1>3. known # <<>>
  BY <1>1, EmptySeq
<1>4. ReconcileFinal(known, words) =
        IF prefix = Len(known) THEN LastOf(words, Len(words) - prefix)
        ELSE IF end = 0 THEN <<>> ELSE LastOf(words, Len(words) - end)
  BY <1>3 DEF ReconcileFinal
<1>5. CASE prefix = Len(known)
  <2>1. known[i] = words[i] /\ i \in 1..Len(words)
    BY <1>1, <1>2, <1>5
  <2>2. i = k
    BY <2>1
  <2>3. prefix \in k..Len(words)
    BY <1>1, <1>2, <1>5, <2>2
  <2>4. QED
    BY <1>4, <1>5, <2>3
<1>6. CASE prefix # Len(known)
  <2>1. ends \subseteq 0..Len(words)
    BY <1>1, <1>2 DEF AlignedEnds
  <2>2. end \in 0..Len(words) /\ prefix <= end /\ \A to \in ends : to <= end
    <3> HIDE DEF prefix, ends
    <3>1. {prefix} \cup ends \subseteq 0..Len(words) /\ {prefix} \cup ends # {}
      BY <1>1, <1>2, <2>1
    <3>2. QED
      BY <1>1, <3>1, MaxOfBounded
  <2>3. k <= end
    <3>1. CASE k <= prefix
      BY <1>1, <1>2, <2>2, <3>1
    <3>2. CASE ~(k <= prefix)
      <4>1. PICK m \in 0..Len(known) : /\ tail = LastOf(known, m)
                                       /\ Overlap <= Len(known) => m = Overlap
                                       /\ Overlap >= Len(known) => m = Len(known)
        BY <1>1, WindowIs
      <4> HIDE DEF tail, prefix, end
      <4>2. /\ tail \in Seq(Nat) /\ Len(tail) = m
            /\ \A j \in 1..m : tail[j] = known[Len(known) - m + j]
        <5>1. /\ LastOf(known, m) \in Seq(Nat) /\ Len(LastOf(known, m)) = m
              /\ \A j \in 1..m : LastOf(known, m)[j] = known[Len(known) - m + j]
          BY LastOfWithin
        <5>2. QED
          BY <4>1, <5>1
      <4> DEFINE at1 == i - (Len(known) - m)
      <4>3. at1 \in 1..Len(tail) /\ tail[at1] = known[i]
        <5>1. at1 \in 1..m /\ Len(known) - m + at1 = i
          BY <1>1, <4>1
        <5>2. QED
          BY <4>2, <5>1
      <4> HIDE DEF at1
      <4> DEFINE left == LastOf(tail, Len(tail) - at1 + 1)
                 right == LastOf(words, Len(words) - k + 1)
                 run == CommonPrefix(left, right)
      <4>4. left \in Seq(Nat) /\ Len(left) > 0 /\ left[1] = tail[at1]
        BY <4>2, <4>3, FromIs
      <4>5. right \in Seq(Nat) /\ Len(right) = Len(words) - k + 1 /\ right[1] = words[k]
        BY FromIs
      <4>6. run \in 0..Len(left) /\ run <= Len(right) /\ run > 0
        <5>1. left[1] = right[1] /\ Len(right) > 0
          BY <1>1, <4>3, <4>4, <4>5
        <5>2. QED
          BY <4>4, <4>5, <5>1, CommonStart, CommonPrefixIs
      <4>7. run \in Nat
        BY <4>4, <4>6, LenProperties
      <4> DEFINE to == k + run - 1
      <4>8. to \in (prefix + 1)..Len(words) /\ k \in (prefix + 1)..to
        <5> HIDE DEF run, right, left
        <5>1. QED
          BY <1>1, <1>2, <3>2, <4>5, <4>6, <4>7
      <4>9. to \in ends
        BY <4>3, <4>6, <4>8 DEF AlignedEnds
      <4>10. QED
        <5> HIDE DEF run, ends
        <5>0. to <= end
          <6> HIDE DEF to
          <6>1. QED
            BY <2>2, <4>9
        <5>1. k <= to /\ to <= end /\ to \in Nat
          BY <4>6, <4>7, <5>0
        <5>2. QED
          BY <5>1, <1>1, <2>2
    <3>3. QED
      BY <3>1, <3>2
  <2>4. end # 0 /\ end \in k..Len(words)
    BY <1>1, <2>2, <2>3
  <2>5. QED
    BY <1>4, <1>6, <2>4
<1>7. QED
  BY <1>5, <1>6

\* The words of a text from one place to another.
LEMMA SliceIs ==
  ASSUME NEW words \in Seq(Nat), NEW to \in 0..Len(words), NEW from \in 0..to
  PROVE  /\ SubSeq(words, from + 1, to) \in Seq(Nat) /\ Len(SubSeq(words, from + 1, to)) = to - from
         /\ \A i \in 1..(to - from) : SubSeq(words, from + 1, to)[i] = words[from + i]
<1> DEFINE b == from + 1
<1>1. Len(words) \in Nat /\ \A i \in 1..Len(words) : words[i] \in Nat
  BY ElementOfSeq, LenProperties
<1>2. b \in Int /\ to \in Int /\ (\A i \in b..to : words[i] \in Nat) /\ to - b + 1 = to - from
      /\ (b <= to <=> from < to) /\ \A i \in 1..(to - from) : b + i - 1 = from + i
  BY <1>1
<1> HIDE DEF b
<1>3. /\ SubSeq(words, b, to) \in Seq(Nat)
      /\ Len(SubSeq(words, b, to)) = IF b <= to THEN to - b + 1 ELSE 0
      /\ \A i \in 1..(to - b + 1) : SubSeq(words, b, to)[i] = words[b + i - 1]
  BY <1>2, SubSeqProperties
<1>4. Len(SubSeq(words, b, to)) = to - from
  BY <1>1, <1>2, <1>3
<1>5. QED
  BY <1>2, <1>3, <1>4 DEF b

\* reconcile_chunk always returns an end of the hypothesis.
LEMMA ChunkRest ==
  ASSUME NEW known \in Seq(Nat), NEW incoming \in Seq(Nat)
  PROVE  \E n \in 0..Len(incoming) :
           ReconcileChunk(known, incoming) = LastOf(incoming, Len(incoming) - n)
<1> DEFINE e == LastOf(known, Overlap)  inc == Upto(incoming, Overlap)
           I == {n \in 0..Len(inc) : n <= Len(e) /\ LastOf(e, n) = Upto(inc, n)}
<1>1. Len(known) \in Nat /\ Len(incoming) \in Nat /\ Overlap \in Nat
  BY LenProperties, LiveTextAssumption
<1>2. e \in Seq(Nat)
  <2>1. PICK m \in 0..Len(known) : e = LastOf(known, m)
    BY <1>1, WindowIs
  <2>2. LastOf(known, m) \in Seq(Nat)
    BY LastOfWithin
  <2>3. QED
    BY <2>1, <2>2
<1>3. inc \in Seq(Nat) /\ Len(inc) \in 0..Len(incoming)
  <2>1. PICK p \in 0..Len(incoming) : inc = Upto(incoming, p)
    BY <1>1, WindowIs
  <2>2. Upto(incoming, p) \in Seq(Nat) /\ Len(Upto(incoming, p)) = p
    BY UptoWithin
  <2> HIDE DEF inc
  <2>3. QED
    BY <2>1, <2>2
<1> HIDE DEF e, inc
<1>4. 0 \in I /\ I \subseteq 0..Len(inc)
  <2>1. Len(inc) \in Nat /\ Len(e) \in Nat /\ 0 \in 0..Len(e) /\ 0 \in 0..Len(inc)
    BY <1>2, <1>3, LenProperties
  <2>2. LastOf(e, 0) \in Seq(Nat) /\ Len(LastOf(e, 0)) = 0 /\ Upto(inc, 0) \in Seq(Nat) /\ Len(Upto(inc, 0)) = 0
    BY <1>2, <1>3, <2>1, LastOfWithin, UptoWithin
  <2>3. LastOf(e, 0) = <<>> /\ Upto(inc, 0) = <<>>
    BY <2>2, EmptySeq
  <2>4. QED
    BY <2>1, <2>3
<1> HIDE DEF I
<1>5. Max(I) \in 0..Len(incoming)
  <2>1. Len(inc) \in Nat /\ Max(I) \in I
    BY <1>3, <1>4, LenProperties, MaxOfBounded
  <2>2. Max(I) \in 0..Len(inc)
    BY <1>4, <2>1
  <2> HIDE DEF Max
  <2>3. QED
    BY <1>1, <1>3, <2>2
<1>6. ReconcileChunk(known, incoming) = LastOf(incoming, Len(incoming) - Max(I))
  BY DEF ReconcileChunk, SuffixPrefix, e, inc, I
<1>7. QED
  BY <1>5, <1>6

\* Of two windows on different words, one up to the word `from' and the other
\* from `back' words before it on, the longest overlap is `back'.
LEMMA OverlapIs ==
  ASSUME NEW words \in Seq(Nat),
         \A a, b \in 1..Len(words) : words[a] = words[b] => a = b,
         NEW from \in 0..Len(words), from < Len(words), NEW back \in 0..from,
         NEW e \in Seq(Nat), Len(e) \in back..from,
         \A j \in 1..Len(e) : e[j] = words[from - Len(e) + j],
         NEW inc \in Seq(Nat), back <= Len(inc),
         \A j \in 1..Len(inc) : inc[j] = words[(from - back) + j]
  PROVE  SuffixPrefix(e, inc) = back
<1> DEFINE I == {n \in 0..Len(inc) : n <= Len(e) /\ LastOf(e, n) = Upto(inc, n)}
<1>1. Len(words) \in Nat
  BY LenProperties
<1>2. PICK m \in 0..from : m = Len(e) /\ back <= m
  BY <1>1
<1>3. PICK p \in Nat : p = Len(inc) /\ back <= p
  BY LenProperties
<1>4. /\ \A j \in 1..m : e[j] = words[from - m + j]
      /\ \A j \in 1..p : inc[j] = words[(from - back) + j]
  BY <1>2, <1>3
<1>6. ASSUME NEW n \in 0..p, n <= m
      PROVE  /\ LastOf(e, n) \in Seq(Nat) /\ Len(LastOf(e, n)) = n
             /\ Upto(inc, n) \in Seq(Nat) /\ Len(Upto(inc, n)) = n
             /\ \A j \in 1..n : LastOf(e, n)[j] = words[from - n + j]
             /\ \A j \in 1..n : Upto(inc, n)[j] = words[(from - back) + j]
  <2>1. n \in 0..Len(e) /\ n \in 0..Len(inc)
    BY <1>2, <1>3, <1>6
  <2>2. /\ LastOf(e, n) \in Seq(Nat) /\ Len(LastOf(e, n)) = n
        /\ \A j \in 1..n : LastOf(e, n)[j] = e[Len(e) - n + j]
    BY <2>1, LastOfWithin
  <2>3. /\ Upto(inc, n) \in Seq(Nat) /\ Len(Upto(inc, n)) = n
        /\ \A j \in 1..n : Upto(inc, n)[j] = inc[j]
    BY <2>1, UptoWithin
  <2>4. ASSUME NEW j \in 1..n PROVE LastOf(e, n)[j] = words[from - n + j]
    <3>1. m - n + j \in 1..m /\ from - m + (m - n + j) = from - n + j
      BY <1>1, <1>6
    <3>2. LastOf(e, n)[j] = e[m - n + j]
      BY <1>2, <2>2
    <3>3. e[m - n + j] = words[from - m + (m - n + j)]
      BY <1>4, <3>1
    <3>4. QED
      BY <3>1, <3>2, <3>3
  <2>5. ASSUME NEW j \in 1..n PROVE Upto(inc, n)[j] = words[(from - back) + j]
    <3>1. j \in 1..p
      BY <1>3
    <3>2. QED
      BY <1>4, <2>3, <3>1
  <2>6. QED
    BY <2>2, <2>3, <2>4, <2>5
<1>7. back \in I
  <2>1. back \in 0..p /\ back <= m
    BY <1>1, <1>2, <1>3
  <2>2. LastOf(e, back) = Upto(inc, back)
    <3>0. /\ LastOf(e, back) \in Seq(Nat) /\ Len(LastOf(e, back)) = back
          /\ Upto(inc, back) \in Seq(Nat) /\ Len(Upto(inc, back)) = back
          /\ \A j \in 1..back : LastOf(e, back)[j] = words[from - back + j]
          /\ \A j \in 1..back : Upto(inc, back)[j] = words[(from - back) + j]
      BY <1>6, <2>1
    <3>1. \A j \in 1..back : LastOf(e, back)[j] = Upto(inc, back)[j]
      BY <3>0
    <3>2. QED
      BY <3>0, <3>1, SeqEqual
  <2>3. QED
    BY <1>2, <1>3, <2>1, <2>2
<1>8. I \subseteq Nat /\ \A n \in I : n <= back
  <2> SUFFICES ASSUME NEW n \in I PROVE n \in Nat /\ n <= back
    OBVIOUS
  <2>1. n \in 0..p /\ n <= m /\ LastOf(e, n) = Upto(inc, n)
    BY <1>2, <1>3
  <2> HIDE DEF I
  <2>2. CASE n = 0
    BY <1>1, <2>2
  <2>3. CASE n # 0
    <3>1. 1 \in 1..n
      BY <2>1, <2>3
    <3>2. words[from - n + 1] = words[(from - back) + 1]
      <4>1. /\ \A j \in 1..n : LastOf(e, n)[j] = words[from - n + j]
            /\ \A j \in 1..n : Upto(inc, n)[j] = words[(from - back) + j]
        BY <1>6, <2>1
      <4>2. QED
        BY <2>1, <3>1, <4>1
    <3>3. from - n + 1 \in 1..Len(words) /\ (from - back) + 1 \in 1..Len(words)
      <4>1. n \in Nat /\ n <= from /\ n > 0 /\ from \in Nat /\ back \in Nat /\ back <= from
        BY <1>1, <2>1, <2>3
      <4>2. QED
        BY <1>1, <4>1
    <3>4. from - n + 1 = (from - back) + 1
      BY <3>2, <3>3
    <3>5. QED
      BY <2>1, <3>4
  <2>4. QED
    BY <2>2, <2>3
<1>9. SuffixPrefix(e, inc) = Max(I)
  BY DEF SuffixPrefix
<1> HIDE DEF I
<1>10. QED
  BY <1>7, <1>8, <1>9, MaxIs

AllDiffer(words) == \A a, b \in 1..Len(words) : words[a] = words[b] => a = b

\* Of a chunk that repeats words it finds the new ones, if all differ.
LEMMA ChunkExact ==
  ASSUME speech \in Seq(Nat), AllDiffer(speech), offset \in 0..Len(speech),
         NEW from \in 0..offset, from < offset, NEW back \in 0..from, back <= Overlap,
         stable = Said(0, from), chunk = Said(from - back, offset)
  PROVE  stable \o ReconcileChunk(stable, chunk) = Said(0, offset)
<1> DEFINE e == LastOf(stable, Overlap)  inc == Upto(chunk, Overlap)
<1>1. Len(speech) \in Nat /\ Overlap \in Nat
  BY LenProperties, LiveTextAssumption
<1>2. stable \in Seq(Nat) /\ Len(stable) = from /\ \A i \in 1..from : stable[i] = speech[i]
  <2>1. from \in 0..Len(speech) /\ 0 \in 0..from /\ from - 0 = from
    BY <1>1
  <2>2. /\ stable \in Seq(Nat) /\ Len(stable) = from - 0
        /\ \A i \in 1..(from - 0) : stable[i] = speech[0 + i]
    BY <2>1, SliceIs DEF Said
  <2>3. QED
    BY <1>1, <2>1, <2>2
<1>3. /\ chunk \in Seq(Nat) /\ Len(chunk) = offset - (from - back)
      /\ \A i \in 1..(offset - (from - back)) : chunk[i] = speech[(from - back) + i]
  <2> DEFINE first == from - back
  <2>1. first \in 0..offset
    BY <1>1
  <2>2. chunk = SubSeq(speech, first + 1, offset)
    BY DEF Said
  <2> HIDE DEF first
  <2>3. /\ chunk \in Seq(Nat) /\ Len(chunk) = offset - first
        /\ \A i \in 1..(offset - first) : chunk[i] = speech[first + i]
    BY <2>1, <2>2, SliceIs
  <2>4. QED
    BY <2>3 DEF first
<1>4. PICK m \in 0..from : /\ e \in Seq(Nat) /\ Len(e) = m /\ back <= m
                           /\ \A j \in 1..m : e[j] = speech[from - m + j]
  <2>1. PICK m \in 0..from : /\ e = LastOf(stable, m)
                             /\ Overlap <= from => m = Overlap
                             /\ Overlap >= from => m = from
    <3>1. PICK m \in 0..Len(stable) :
            /\ e = LastOf(stable, m)
            /\ Overlap <= Len(stable) => m = Overlap
            /\ Overlap >= Len(stable) => m = Len(stable)
      BY <1>1, <1>2, WindowIs
    <3> HIDE DEF e
    <3>2. QED
      BY <1>2, <3>1
  <2>2. /\ e \in Seq(Nat) /\ Len(e) = m
        /\ \A j \in 1..m : e[j] = stable[from - m + j]
    <3>1. /\ LastOf(stable, m) \in Seq(Nat) /\ Len(LastOf(stable, m)) = m
          /\ \A j \in 1..m : LastOf(stable, m)[j] = stable[Len(stable) - m + j]
      <4>1. stable \in Seq(Nat) /\ m \in 0..Len(stable)
        BY <1>2
      <4>2. QED
        BY <4>1, LastOfWithin
    <3> HIDE DEF e
    <3>2. QED
      BY <1>2, <2>1, <3>1
  <2> HIDE DEF e
  <2>3. back <= m /\ \A j \in 1..m : from - m + j \in 1..from
    BY <1>1, <2>1
  <2>4. QED
    BY <1>2, <2>2, <2>3
<1>5. PICK p \in Nat : /\ inc \in Seq(Nat) /\ Len(inc) = p /\ back <= p
                       /\ \A j \in 1..p : inc[j] = speech[(from - back) + j]
  <2>1. PICK p \in 0..Len(chunk) : /\ inc = Upto(chunk, p)
                                   /\ Overlap <= Len(chunk) => p = Overlap
                                   /\ Overlap >= Len(chunk) => p = Len(chunk)
    BY <1>1, <1>3, WindowIs
  <2>2. /\ inc \in Seq(Nat) /\ Len(inc) = p
        /\ \A j \in 1..p : inc[j] = chunk[j]
    <3>1. /\ Upto(chunk, p) \in Seq(Nat) /\ Len(Upto(chunk, p)) = p
          /\ \A j \in 1..p : Upto(chunk, p)[j] = chunk[j]
      BY <1>3, UptoWithin
    <3> HIDE DEF inc
    <3>2. QED
      BY <2>1, <3>1
  <2> HIDE DEF inc
  <2>3. p \in Nat /\ back <= p /\ \A j \in 1..p : j \in 1..(offset - (from - back))
    <3> DEFINE c == Len(chunk)
    <3>1. c \in Nat /\ c = offset - (from - back) /\ back <= c /\ p \in 0..c
      <4>1. c = offset - (from - back) /\ p \in 0..c
        BY <1>3
      <4> HIDE DEF c
      <4>2. offset - (from - back) \in Nat /\ back <= offset - (from - back)
        BY <1>1
      <4>3. QED
        BY <4>1, <4>2
    <3>2. (Overlap <= c => p = Overlap) /\ (Overlap >= c => p = c)
      BY <2>1
    <3> HIDE DEF c
    <3>3. QED
      BY <1>1, <3>1, <3>2
  <2>4. QED
    BY <1>3, <2>2, <2>3
<1> HIDE DEF e, inc
<1>6. SuffixPrefix(e, inc) = back
  <2>1. from \in 0..Len(speech) /\ from < Len(speech) /\ \A a, b \in 1..Len(speech) : speech[a] = speech[b] => a = b
    BY <1>1 DEF AllDiffer
  <2>2. /\ e \in Seq(Nat) /\ Len(e) \in back..from
        /\ \A j \in 1..Len(e) : e[j] = speech[from - Len(e) + j]
    BY <1>4
  <2>3. /\ inc \in Seq(Nat) /\ back <= Len(inc)
        /\ \A j \in 1..Len(inc) : inc[j] = speech[(from - back) + j]
    BY <1>5
  <2>4. QED
    BY <2>1, <2>2, <2>3, OverlapIs, ZenonT(60)
<1>9. ReconcileChunk(stable, chunk) = LastOf(chunk, Len(chunk) - back)
  BY <1>6 DEF ReconcileChunk, e, inc
<1> DEFINE new == LastOf(chunk, Len(chunk) - back)
<1>10. /\ new \in Seq(Nat) /\ Len(new) = offset - from
       /\ \A i \in 1..(offset - from) : new[i] = speech[from + i]
  <2>1. back \in 0..Len(chunk) /\ Len(chunk) - back = offset - from
    BY <1>1, <1>3
  <2>2. /\ new \in Seq(Nat) /\ Len(new) = Len(chunk) - back
        /\ \A i \in 1..(Len(chunk) - back) : new[i] = chunk[back + i]
    BY <1>3, <2>1, RestIs, ZenonT(60)
  <2> HIDE DEF new
  <2>3. ASSUME NEW i \in 1..(offset - from) PROVE new[i] = speech[from + i]
    <3>1. back + i \in 1..(offset - (from - back)) /\ (from - back) + (back + i) = from + i
      BY <1>1
    <3>2. new[i] = chunk[back + i]
      BY <2>1, <2>2
    <3>3. chunk[back + i] = speech[(from - back) + (back + i)]
      BY <1>3, <3>1
    <3>4. QED
      BY <3>1, <3>2, <3>3
  <2>4. QED
    BY <2>1, <2>2, <2>3
<1> HIDE DEF new
<1>11. /\ Said(0, offset) \in Seq(Nat) /\ Len(Said(0, offset)) = offset
       /\ \A i \in 1..offset : Said(0, offset)[i] = speech[i]
  <2>1. 0 \in 0..offset /\ offset - 0 = offset
    BY <1>1
  <2>2. /\ Said(0, offset) \in Seq(Nat) /\ Len(Said(0, offset)) = offset - 0
        /\ \A i \in 1..(offset - 0) : Said(0, offset)[i] = speech[0 + i]
    BY <2>1, SliceIs DEF Said
  <2>3. QED
    BY <1>1, <2>1, <2>2
<1>12. /\ stable \o new \in Seq(Nat) /\ Len(stable \o new) = from + (offset - from)
       /\ \A i \in 1..(from + (offset - from)) : (stable \o new)[i] = IF i <= from THEN stable[i] ELSE new[i - from]
  <2>1. stable \in Seq(Nat) /\ new \in Seq(Nat) /\ Len(stable) = from /\ Len(new) = offset - from
    BY <1>2, <1>10
  <2>2. /\ stable \o new \in Seq(Nat) /\ Len(stable \o new) = Len(stable) + Len(new)
        /\ \A i \in 1..(Len(stable) + Len(new)) :
             (stable \o new)[i] = IF i <= Len(stable) THEN stable[i] ELSE new[i - Len(stable)]
    BY <2>1, ConcatIs
  <2>3. QED
    BY <2>1, <2>2
<1>13. ASSUME NEW i \in 1..offset PROVE (stable \o new)[i] = speech[i]
  <2>1. i \in 1..(from + (offset - from))
    BY <1>1
  <2>2. CASE i <= from
    <3>1. i \in 1..from
      BY <1>1, <2>2
    <3>2. QED
      BY <1>2, <1>12, <2>1, <2>2, <3>1
  <2>3. CASE ~(i <= from)
    <3>1. i - from \in 1..(offset - from) /\ from + (i - from) = i
      BY <1>1, <2>3
    <3>2. QED
      BY <1>10, <1>12, <2>1, <2>3, <3>1
  <2>4. QED
    BY <2>2, <2>3
<1>14. stable \o new = Said(0, offset)
  <2>1. Len(stable \o new) = Len(Said(0, offset))
    BY <1>1, <1>11, <1>12
  <2>2. \A i \in 1..Len(stable \o new) : (stable \o new)[i] = Said(0, offset)[i]
    BY <1>11, <1>13, <2>1
  <2>3. QED
    BY <1>11, <1>12, <2>1, <2>2, SeqEqual
<1>15. QED
  BY <1>9, <1>14 DEF new

-----------------------------------------------------------------------------
(***************************************************************************)
(* Types                                                                   *)
(***************************************************************************)

\* Every speech is a sequence of words, and so is every part of it.
LEMMA SpeechIs ==
  ASSUME TypeOK
  PROVE  /\ speech \in Seq(Nat) /\ Len(speech) \in Nat /\ heard \in Nat /\ offset \in Nat
         /\ heard <= Len(speech) /\ offset <= heard
         /\ \A i \in 1..Len(speech) : speech[i] \notin Noises
<1>1. speech \in Seq(Nat \ Noises) /\ Nat \ Noises \subseteq Nat
  BY LiveTextAssumption DEF TypeOK
<1>2. speech \in Seq(Nat) /\ \A i \in 1..Len(speech) : speech[i] \in Nat \ Noises
  BY <1>1, SeqMonotonic, ElementOfSeq
<1>3. Len(speech) \in Nat
  BY <1>2, LenProperties
<1>4. QED
  BY <1>2, <1>3 DEF TypeOK

LEMMA NoWords == <<>> \in Seq(Nat) /\ Len(<<>>) = 0 /\ \A s \in Seq(Nat) : s # <<>> <=> Len(s) > 0
<1>1. <<>> \in Seq(Nat) /\ Len(<<>>) = 0 /\ \A s \in Seq(Nat) : s # <<>> => Len(s) \in Nat \ {0}
  BY EmptySeq
<1>2. QED
  BY <1>1

LEMMA RemainingType ==
  ASSUME WordsTypeOK
  PROVE  Remaining \in Seq(Nat)
<1>1. stable \in Seq(Nat) /\ text \in Seq(Nat)
  BY DEF WordsTypeOK
<1>2. PICK e \in 0..Len(text) : ReconcileFinal(stable, text) = LastOf(text, Len(text) - e)
  BY <1>1, FinalType
<1>3. LastOf(text, Len(text) - e) \in Seq(Nat)
  BY <1>1, RestIs
<1>4. QED
  BY <1>1, <1>2, <1>3 DEF Remaining

LEMMA NewWordsType ==
  ASSUME WordsTypeOK
  PROVE  ReconcileChunk(stable, chunk) \in Seq(Nat)
<1>1. stable \in Seq(Nat) /\ chunk \in Seq(Nat)
  BY DEF WordsTypeOK
<1>2. PICK n \in 0..Len(chunk) : ReconcileChunk(stable, chunk) = LastOf(chunk, Len(chunk) - n)
  BY <1>1, ChunkRest
<1>3. QED
  BY <1>1, <1>2, RestIs

LEMMA InitTypes == Init => TypeOK /\ WordsTypeOK
<1> SUFFICES ASSUME Init PROVE TypeOK /\ WordsTypeOK
  OBVIOUS
<1>1. <<0>> \in Seq(Nat)
  OBVIOUS
<1>2. Len(speech) \in Nat
  BY LiveTextAssumption, LenProperties DEF Init
<1>3. TypeOK
  <2>1. 0 \in 0..Len(speech) /\ 0 \in 0..0 /\ MaxCopies \in Nat /\ 0 \in 0..MaxCopies
    BY <1>2, LiveTextAssumption
  <2>2. worker \in {"wait", "insert", "typing", "ended"}
    BY DEF Init
  <2>3. QED
    BY <2>1, <2>2 DEF Init, TypeOK
<1>4. clipboard \in Contents
  <2>1. UserText(0) \in Contents /\ Image \in Contents
    BY <1>1, NoWords DEF Contents, UserText, Image
  <2>2. QED
    BY <2>1 DEF Init
<1>5. QED
  BY <1>3, <1>4, NoWords
     DEF Init, WordsTypeOK, Pastes, Contents, Results, NoPaste, Nothing, Image

\* No step of the capture, the worker, the final pass or a paste leaves the types.
LEMMA StepTypes == LiveTextInv /\ [Next]_vars => TypeOK'
<1> SUFFICES ASSUME TypeOK, WordsTypeOK, [Next]_vars PROVE TypeOK'
  BY DEF LiveTextInv, Placed
<1>0. /\ Len(speech) \in Nat /\ heard \in Nat /\ offset \in Nat /\ MaxCopies \in Nat
      /\ copies \in Nat
  BY SpeechIs, LiveTextAssumption DEF TypeOK
<1> USE DEF audioVars, liveVars, finalVars, pasteVars, PasteKeeps
<1>1. CASE Speak
  BY <1>0, <1>1 DEF TypeOK, Speak
<1>2. CASE UserCopies
  BY <1>0, <1>2 DEF TypeOK, UserCopies
<1>3. CASE RequestStop
  BY <1>3 DEF TypeOK, RequestStop
<1>4. CASE StopCapture
  BY <1>4 DEF TypeOK, StopCapture
<1>5. CASE Cancel
  BY <1>0, <1>5 DEF TypeOK, Cancel
<1>6. CASE TakeChunk
  BY <1>0, <1>6 DEF TypeOK, TakeChunk, LiveIdle
<1>7. CASE InsertChunk
  BY <1>7 DEF TypeOK, InsertChunk
<1>8. CASE ChunkTyped \/ ChunkFailed
  BY <1>8 DEF TypeOK, ChunkTyped, ChunkFailed
<1>9. CASE Transcribe \/ FinalTyped \/ CopyBoth
  BY <1>9 DEF TypeOK, Transcribe, FinalTyped, CopyBoth
<1>10. CASE Deliver
  BY <1>10 DEF TypeOK, Deliver
<1>11. CASE FinalFailed
  BY <1>11 DEF TypeOK, FinalFailed
<1>12. CASE Route \/ PasteRead \/ PasteCopy
  BY <1>12 DEF TypeOK, Route, PasteRead, PasteCopy
<1>13. CASE PasteKey
  <2>1. at' \in {"typed", "look", "failed"} /\ broken' \in BOOLEAN
    BY <1>13 DEF TypeOK, PasteKey
  <2>2. UNCHANGED <<PasteKeeps, paste, clipboard, copied, raced>>
    BY <1>13 DEF PasteKey
  <2>3. QED
    BY <2>1, <2>2 DEF TypeOK
<1>14. CASE PasteLook \/ PasteRestore
  BY <1>14 DEF TypeOK, PasteLook, PasteRestore
<1>15. CASE UNCHANGED vars
  BY <1>15 DEF TypeOK, vars
<1>16. QED
  BY <1>1, <1>2, <1>3, <1>4, <1>5, <1>6, <1>7, <1>8, <1>9, <1>10, <1>11, <1>12, <1>13, <1>14,
     <1>15 DEF Next, LiveStep, FinalStep, PasteStep

\* The chunk a worker takes consists of words.
LEMMA ChunkIsWords ==
  ASSUME TypeOK, TakeChunk
  PROVE  chunk' = chunk \/ chunk' \in Seq(Nat)
<1> SUFFICES ASSUME ~(stop \/ source # "open") PROVE chunk' \in Seq(Nat)
  BY DEF TakeChunk
<1>1. PICK back \in 0..Repeats :
        /\ back <= offset
        /\ LET said == SubSeq(speech, offset - back + 1, heard) IN
           \/ chunk' = said
           \/ \E i \in (back + 1)..Len(said), noise \in Noises : chunk' = [said EXCEPT ![i] = noise]
  BY DEF TakeChunk
<1> DEFINE from == offset - back
<1>2. from \in 0..heard /\ heard \in 0..Len(speech) /\ back \in Nat
  BY <1>1, SpeechIs, LiveTextAssumption
<1>3. SubSeq(speech, from + 1, heard) \in Seq(Nat)
  <2> HIDE DEF from
  <2>1. QED
    BY <1>2, SpeechIs, SliceIs
<1> DEFINE said == SubSeq(speech, from + 1, heard)
<1>4. CASE chunk' = said
  BY <1>3, <1>4
<1>5. ASSUME NEW i \in (back + 1)..Len(said), NEW noise \in Noises, chunk' = [said EXCEPT ![i] = noise]
      PROVE  chunk' \in Seq(Nat)
  <2>1. Len(said) \in Nat /\ noise \in Nat
    BY <1>3, LenProperties, LiveTextAssumption
  <2>2. i \in 1..Len(said)
    BY <1>2, <2>1
  <2> HIDE DEF said
  <2>3. [said EXCEPT ![i] = noise] \in Seq(Nat)
    BY <1>3, <2>1, <2>2, ExceptSeq DEF said
  <2>4. QED
    BY <1>5, <2>3
<1>6. QED
  BY <1>1, <1>4, <1>5

\* What is put into a record of the module.
LEMMA Records ==
  /\ \A w \in Seq(Nat) : Ours("transcript", w) \in Contents /\ Ours("fragment", w) \in Contents
  /\ \A n \in Nat : UserText(n) \in Contents
  /\ Image \in Contents /\ NoPaste \in Pastes /\ Nothing \in Results
  /\ \A w \in Seq(Nat) : /\ [NoPaste EXCEPT !.who = "fragment", !.words = w] \in Pastes
                         /\ [NoPaste EXCEPT !.who = "transcript", !.words = w] \in Pastes
<1>1. \A n \in Nat : <<n>> \in Seq(Nat)
  OBVIOUS
<1>2. Image \in Contents
  BY NoWords DEF Image, Contents
<1>3. NoPaste \in Pastes
  BY <1>2, NoWords DEF NoPaste, Pastes
<1>4. \A w \in Seq(Nat) : Ours("transcript", w) \in Contents /\ Ours("fragment", w) \in Contents
  BY DEF Ours, Contents
<1>5. \A n \in Nat : UserText(n) \in Contents
  BY <1>1 DEF UserText, Contents
<1>6. ASSUME NEW w \in Seq(Nat)
      PROVE  /\ [NoPaste EXCEPT !.who = "fragment", !.words = w] \in Pastes
             /\ [NoPaste EXCEPT !.who = "transcript", !.words = w] \in Pastes
  BY <1>2, NoWords DEF NoPaste, Pastes
<1>7. Nothing \in Results
  BY DEF Nothing, Results
<1>8. QED
  BY <1>2, <1>3, <1>4, <1>5, <1>6, <1>7

LEMMA StepWords == LiveTextInv /\ [Next]_vars => WordsTypeOK'
<1> SUFFICES ASSUME TypeOK, WordsTypeOK, Inserting, [Next]_vars PROVE WordsTypeOK'
  BY DEF LiveTextInv, Placed
<1>0. /\ chunk \in Seq(Nat) /\ stable \in Seq(Nat) /\ text \in Seq(Nat)
      /\ target \in Seq(Nat) /\ copied \in Seq(Nat)
      /\ paste \in Pastes /\ clipboard \in Contents /\ result \in Results
      /\ paste.words \in Seq(Nat) /\ paste.previous \in Contents
      /\ copies \in Nat /\ lastResult \in BOOLEAN
  BY LiveTextAssumption DEF TypeOK, WordsTypeOK, Pastes
<1> USE DEF audioVars, liveVars, finalVars, pasteVars, PasteKeeps
<1>1. CASE Speak \/ RequestStop \/ StopCapture \/ Cancel
  BY <1>1 DEF WordsTypeOK, Speak, RequestStop, StopCapture, Cancel
<1>2. CASE UserCopies
  <2> DEFINE n == copies + 1
  <2>1. n \in Nat
    BY <1>0
  <2> HIDE DEF n
  <2>2. UserText(n) \in Contents
    BY <2>1, Records
  <2>3. QED
    BY <1>2, <2>2 DEF WordsTypeOK, UserCopies, n
<1>3. CASE TakeChunk
  <2>1. chunk' \in Seq(Nat)
    BY <1>0, <1>3, ChunkIsWords
  <2>2. QED
    BY <1>3, <2>1 DEF WordsTypeOK, TakeChunk, LiveIdle
<1>4. CASE InsertChunk
  <2> DEFINE new == ReconcileChunk(stable, chunk)
  <2>1. new \in Seq(Nat)
    BY NewWordsType
  <2>2. stable \o new \in Seq(Nat)
    BY <1>0, <2>1, ConcatIs
  <2>3. [NoPaste EXCEPT !.who = "fragment", !.words = new] \in Pastes
    BY <2>1, Records
  <2>4. stable' \in Seq(Nat) /\ paste' \in Pastes
    BY <1>0, <1>4, <2>2, <2>3 DEF InsertChunk
  <2>5. QED
    BY <1>4, <2>4 DEF WordsTypeOK, InsertChunk
<1>5. CASE ChunkTyped \/ ChunkFailed
  BY <1>5, Records DEF WordsTypeOK, ChunkTyped, ChunkFailed
<1>6. CASE Transcribe
  <2>1. text' \in Seq(Nat)
    BY <1>6, SpeechIs, UptoWithin DEF Transcribe
  <2>2. QED
    BY <1>6, <2>1 DEF WordsTypeOK, Transcribe
<1>7. CASE Deliver
  <2>1. Remaining \in Seq(Nat) /\ [NoPaste EXCEPT !.who = "transcript", !.words = Remaining] \in Pastes
    BY RemainingType, Records
  <2>2. \A a, b \in BOOLEAN : [inserted |-> a, copied |-> b] \in Results
    BY DEF Results
  <2>3. /\ [inserted |-> lastResult, copied |-> TRUE] \in Results
        /\ [inserted |-> lastResult, copied |-> FALSE] \in Results
        /\ [inserted |-> lastResult, copied |-> ~lastResult] \in Results
    BY <1>0, <2>2
  <2>4. result' \in Results
    BY <1>0, <1>7, <2>3 DEF Deliver
  <2>5. clipboard' \in Contents /\ copied' \in Seq(Nat)
    BY <1>0, <1>7, Records DEF Deliver
  <2>6. paste' \in Pastes
    BY <1>0, <1>7, <2>1 DEF Deliver
  <2>7. QED
    BY <1>7, <2>4, <2>5, <2>6 DEF WordsTypeOK, Deliver
<1>8. CASE FinalTyped
  <2>1. result' \in Results
    BY <1>8 DEF FinalTyped, Results
  <2>2. QED
    BY <1>8, <2>1, Records DEF WordsTypeOK, FinalTyped
<1>9. CASE FinalFailed
  <2>1. [result EXCEPT !.copied = TRUE] \in Results
    BY <1>0 DEF Results
  <2>2. clipboard' \in Contents /\ copied' \in Seq(Nat) /\ result' \in Results
    BY <1>0, <1>9, <2>1, Records DEF FinalFailed
  <2>3. QED
    BY <1>9, <2>2, Records DEF WordsTypeOK, FinalFailed
<1>10. CASE CopyBoth
  <2>1. [result EXCEPT !.copied = TRUE] \in Results /\ [result EXCEPT !.copied = FALSE] \in Results
    BY <1>0 DEF Results
  <2>2. clipboard' \in Contents /\ copied' \in Seq(Nat) /\ result' \in Results
    BY <1>0, <1>10, <2>1, Records DEF CopyBoth
  <2>3. QED
    BY <1>10, <2>2 DEF WordsTypeOK, CopyBoth
<1>11. CASE Route \/ PasteKey
  <2>1. target \o paste.words \in Seq(Nat)
    BY <1>0, ConcatIs
  <2>2. target' \in Seq(Nat)
    BY <1>0, <1>11, <2>1 DEF Route, PasteKey
  <2>3. QED
    BY <1>11, <2>2 DEF WordsTypeOK, Route, PasteKey
<1>12. CASE PasteRead
  <2>1. paste' \in Pastes
    BY <1>0, <1>12 DEF PasteRead, Pastes
  <2>2. QED
    BY <1>12, <2>1 DEF WordsTypeOK, PasteRead
<1>13. CASE PasteCopy
  <2>1. paste.who \in {"fragment", "transcript"}
    BY <1>0, <1>13 DEF PasteCopy, Inserting, Pastes
  <2>2. clipboard' \in Contents
    BY <1>0, <1>13, <2>1, Records DEF PasteCopy
  <2>3. QED
    BY <1>13, <2>2 DEF WordsTypeOK, PasteCopy
<1>14. CASE PasteLook \/ PasteRestore
  BY <1>0, <1>14 DEF WordsTypeOK, PasteLook, PasteRestore
<1>15. CASE UNCHANGED vars
  BY <1>15 DEF WordsTypeOK, vars
<1>16. QED
  BY <1>1, <1>2, <1>3, <1>4, <1>5, <1>6, <1>7, <1>8, <1>9, <1>10, <1>11, <1>12, <1>13, <1>14,
     <1>15 DEF Next, LiveStep, FinalStep, PasteStep

\* Where the insertion is, and where the recording is.
LEMMA StepInserting == LiveTextInv /\ [Next]_vars => Inserting'
<1> SUFFICES ASSUME TypeOK, WordsTypeOK, Inserting, Phases, [Next]_vars PROVE Inserting'
  BY DEF LiveTextInv, Placed
<1>0. /\ paste.who \in {"nobody", "fragment", "transcript"}
      /\ at # "free" => paste.who \in {"fragment", "transcript"}
  BY DEF WordsTypeOK, Pastes, Inserting
<1> USE DEF audioVars, liveVars, finalVars, pasteVars, PasteKeeps
<1>1. CASE Speak \/ RequestStop \/ UserCopies
  BY <1>1 DEF Inserting, Speak, RequestStop, UserCopies
<1>2. CASE StopCapture \/ Cancel
  BY <1>2 DEF Inserting, Phases, StopCapture, Cancel
<1>3. CASE TakeChunk
  BY <1>3 DEF Inserting, TakeChunk, LiveIdle
<1>4. CASE InsertChunk
  <2> DEFINE new == ReconcileChunk(stable, chunk)
  <2>1. CASE new = <<>>
    BY <1>4, <2>1 DEF Inserting, InsertChunk
  <2>2. CASE new # <<>>
    <3>1. paste'.who = "fragment" /\ paste'.words = new /\ at' = "route" /\ worker' = "typing" /\ final' = final
      BY <1>4, <2>2 DEF InsertChunk, NoPaste
    <3>2. final # "typing"
      BY <1>4 DEF Inserting, InsertChunk
    <3>3. QED
      BY <2>2, <3>1, <3>2 DEF Inserting
  <2>3. QED
    BY <2>1, <2>2
<1>5. CASE ChunkTyped \/ ChunkFailed
  BY <1>5 DEF Inserting, ChunkTyped, ChunkFailed
<1>6. CASE Transcribe \/ CopyBoth
  BY <1>6 DEF Inserting, Transcribe, CopyBoth
<1>7. CASE Deliver
  <2>1. worker # "typing"
    BY <1>7 DEF Inserting, Deliver
  <2>2. CASE final' = "typing"
    <3>1. /\ paste'.who = "transcript" /\ paste'.words = Remaining /\ Remaining # <<>>
          /\ at' = "route" /\ worker' = worker
      BY <1>7, <2>2 DEF Deliver, NoPaste
    <3>2. QED
      BY <2>1, <2>2, <3>1 DEF Inserting
  <2>3. CASE final' # "typing"
    BY <1>7, <2>3 DEF Inserting, Deliver
  <2>4. QED
    BY <2>2, <2>3
<1>8. CASE FinalTyped \/ FinalFailed
  BY <1>0, <1>8 DEF Inserting, FinalTyped, FinalFailed
<1>9. CASE Route
  BY <1>0, <1>9 DEF Inserting, Route
<1>10. CASE PasteRead
  <2>1. paste'.who = paste.who /\ paste'.words = paste.words
    BY <1>10 DEF PasteRead, WordsTypeOK, Pastes
  <2>2. QED
    BY <1>0, <1>10, <2>1 DEF Inserting, PasteRead
<1>11. CASE PasteCopy \/ PasteKey
  BY <1>0, <1>11 DEF Inserting, PasteCopy, PasteKey
<1>12. CASE PasteLook \/ PasteRestore
  BY <1>0, <1>12 DEF Inserting, PasteLook, PasteRestore
<1>13. CASE UNCHANGED vars
  BY <1>13 DEF Inserting, vars
<1>14. QED
  BY <1>1, <1>2, <1>3, <1>4, <1>5, <1>6, <1>7, <1>8, <1>9, <1>10, <1>11, <1>12, <1>13
     DEF Next, LiveStep, FinalStep, PasteStep

LEMMA StepPhases == LiveTextInv /\ [Next]_vars => Phases'
<1> SUFFICES ASSUME TypeOK, Inserting, Phases, [Next]_vars PROVE Phases'
  BY DEF LiveTextInv, Placed
<1>0. heard \in Nat
  BY SpeechIs
<1> USE DEF audioVars, liveVars, finalVars, pasteVars, PasteKeeps
<1>1. CASE Speak \/ RequestStop \/ UserCopies
  BY <1>1 DEF Phases, Speak, RequestStop, UserCopies
<1>2. CASE StopCapture
  BY <1>0, <1>2 DEF Phases, StopCapture, TypeOK
<1>3. CASE Cancel
  BY <1>3 DEF Phases, Cancel, TypeOK
<1>4. CASE TakeChunk \/ InsertChunk
  BY <1>4 DEF Phases, TakeChunk, LiveIdle, InsertChunk, TypeOK
<1>5. CASE ChunkTyped \/ ChunkFailed
  BY <1>5 DEF Phases, ChunkTyped, ChunkFailed, TypeOK
<1>6. CASE Transcribe
  BY <1>6 DEF Phases, Transcribe, TypeOK
<1>7. CASE Deliver
  BY <1>7 DEF Phases, Deliver, TypeOK
<1>8. CASE FinalTyped \/ FinalFailed
  BY <1>8 DEF Phases, FinalTyped, FinalFailed, TypeOK
<1>9. CASE CopyBoth
  BY <1>9 DEF Phases, CopyBoth, TypeOK
<1>10. CASE PasteStep
  BY <1>10 DEF Phases, PasteStep, Route, PasteRead, PasteCopy, PasteKey, PasteLook, PasteRestore
<1>11. CASE UNCHANGED vars
  BY <1>11 DEF Phases, vars
<1>12. QED
  BY <1>1, <1>2, <1>3, <1>4, <1>5, <1>6, <1>7, <1>8, <1>9, <1>10, <1>11
     DEF Next, LiveStep, FinalStep

\* The text of the final pass is what was heard, and not empty.
LEMMA TextIsHeard ==
  ASSUME Placed, source = "stopped", heard > 0, final # "transcribe"
  PROVE  /\ text = Upto(speech, heard) /\ text = Said(0, heard) /\ Len(text) = heard /\ text # <<>>
         /\ \A i \in 1..heard : text[i] = speech[i]
<1>1. /\ speech \in Seq(Nat) /\ heard \in 0..Len(speech) /\ text = Upto(speech, heard) /\ 0 + 1 = 1
      /\ text \in Seq(Nat)
  BY SpeechIs DEF Placed, Phases, TypeOK, WordsTypeOK
<1>2. /\ Upto(speech, heard) = SubSeq(speech, 1, heard) /\ Len(Upto(speech, heard)) = heard
      /\ \A i \in 1..heard : Upto(speech, heard)[i] = speech[i]
  BY <1>1, UptoWithin
<1>3. QED
  BY <1>1, <1>2, NoWords DEF Said

LEMMA TextInPass ==
  ASSUME Placed, final \in {"deliver", "typing", "both"}
  PROVE  source = "stopped" /\ heard > 0 /\ text # <<>>
<1>1. source = "stopped" /\ heard > 0
  BY DEF Placed, TypeOK, Phases
<1>2. QED
  BY <1>1, TextIsHeard

-----------------------------------------------------------------------------
(***************************************************************************)
(* The clipboard                                                           *)
(***************************************************************************)

\* What is written for a paste is neither the user's text nor an image.
LEMMA Kinds ==
  /\ \A n \in Nat, w \in Seq(Nat) : /\ UserText(n) # Ours("fragment", w) /\ UserText(n) # Ours("transcript", w)
                                    /\ Image # Ours("fragment", w) /\ Image # Ours("transcript", w)
  /\ \A n \in Nat : UserText(n) # Image
<1>1. \A n \in Nat, w \in Seq(Nat) :
         /\ UserText(n).kind = "user" /\ Image.kind = "image"
         /\ Ours("fragment", w).kind = "fragment" /\ Ours("transcript", w).kind = "transcript"
  BY DEF UserText, Ours, Image
<1>2. QED
  BY <1>1, NoWords

\* The user's clipboard comes back from every paste that is not disturbed.
LEMMA StepLent == LiveTextInv /\ [Next]_vars => Lent'
<1> SUFFICES ASSUME Placed, TypeOK, WordsTypeOK, Inserting, Lent, Settled, [Next]_vars,
                    copied' = <<>>, ~broken', ~raced'
             PROVE  Lent'
  BY DEF LiveTextInv, Placed, Lent
<1>0. /\ copied \in Seq(Nat) /\ text \in Seq(Nat) /\ paste \in Pastes /\ copies \in Nat
      /\ at # "free" => paste.who \in {"fragment", "transcript"} /\ paste.words # <<>>
      /\ paste.words \in Seq(Nat)
  BY LiveTextAssumption DEF TypeOK, WordsTypeOK, Pastes, Inserting
<1> USE DEF audioVars, liveVars, finalVars, pasteVars, PasteKeeps
<1>1. CASE Speak \/ RequestStop \/ StopCapture \/ Cancel
  BY <1>1 DEF Lent, Users, Speak, RequestStop, StopCapture, Cancel
<1>2. CASE UserCopies
  BY <1>2 DEF Lent, Users, UserCopies, TypeOK
<1>3. CASE TakeChunk
  BY <1>3 DEF Lent, Users, TakeChunk, LiveIdle
<1>4. CASE InsertChunk
  BY <1>4 DEF Lent, Users, InsertChunk
<1>5. CASE ChunkTyped \/ ChunkFailed
  BY <1>5 DEF Lent, Users, ChunkTyped, ChunkFailed
<1>6. CASE Transcribe
  BY <1>6 DEF Lent, Users, Transcribe
<1>7. CASE Deliver
  <2>1. text # <<>>
    BY <1>7, TextInPass DEF Deliver
  <2>2. QED
    BY <1>7, <2>1 DEF Lent, Users, Deliver
<1>8. CASE FinalTyped
  BY <1>8 DEF Lent, Users, FinalTyped
<1>9. CASE FinalFailed
  BY <1>0, <1>9 DEF Lent, Users, FinalFailed
<1>10. CASE CopyBoth
  <2>1. text # <<>>
    BY <1>10, TextInPass DEF CopyBoth
  <2>2. QED
    BY <1>10, <2>1 DEF Lent, Users, CopyBoth
<1>11. CASE Route
  BY <1>11 DEF Lent, Users, Route
<1>12. CASE PasteRead
  <2>1. paste'.previous = clipboard
    BY <1>0, <1>12 DEF PasteRead, Pastes
  <2>2. QED
    BY <1>12, <2>1 DEF Lent, Users, PasteRead
<1>13. CASE PasteCopy
  BY <1>13 DEF Lent, Users, PasteCopy
<1>14. CASE PasteKey
  BY <1>14 DEF Lent, Users, PasteKey, TypeOK
<1>15. CASE PasteLook
  <2>1. UserText(copies) # Ours(paste.who, paste.words)
    BY <1>0, <1>15, Kinds DEF PasteLook
  <2>2. QED
    BY <1>15, <2>1 DEF Lent, Users, PasteLook
<1>16. CASE PasteRestore
  BY <1>16 DEF Lent, Users, PasteRestore
<1>17. CASE UNCHANGED vars
  BY <1>17 DEF Lent, Users, vars
<1>18. QED
  BY <1>1, <1>2, <1>3, <1>4, <1>5, <1>6, <1>7, <1>8, <1>9, <1>10, <1>11, <1>12, <1>13, <1>14,
     <1>15, <1>16, <1>17 DEF Next, LiveStep, FinalStep, PasteStep

-----------------------------------------------------------------------------
(***************************************************************************)
(* The window and the result                                               *)
(***************************************************************************)

\* A word put behind others leaves something behind.
LEMMA PutBehind ==
  ASSUME NEW s \in Seq(Nat), NEW w \in Seq(Nat), w # <<>>
  PROVE  s \o w # <<>>
<1>1. s \o w \in Seq(Nat) /\ Len(s \o w) = Len(s) + Len(w) /\ Len(w) > 0 /\ Len(s) \in Nat /\ Len(w) \in Nat
  BY NoWords, ConcatIs, LenProperties
<1>2. QED
  BY <1>1, NoWords

\* What is typed into the window is what the reconciler knows.
LEMMA StepTyped == LiveTextInv /\ [Next]_vars => Typed'
<1> SUFFICES ASSUME Placed, TypeOK, WordsTypeOK, Inserting, Phases, Typed, [Next]_vars PROVE Typed'
  BY DEF LiveTextInv, Placed
<1>0. /\ stable \in Seq(Nat) /\ target \in Seq(Nat) /\ paste \in Pastes /\ paste.words \in Seq(Nat)
      /\ at # "free" => paste.words # <<>> /\ target \o paste.words # <<>>
  BY PutBehind DEF WordsTypeOK, Pastes, Inserting
<1> USE DEF audioVars, liveVars, finalVars, pasteVars, PasteKeeps
<1>1. CASE Speak \/ RequestStop \/ UserCopies
  BY <1>1 DEF Typed, Reached, Speak, RequestStop, UserCopies
<1>2. CASE StopCapture \/ Cancel
  BY <1>2 DEF Typed, Reached, Phases, StopCapture, Cancel
<1>3. CASE TakeChunk
  BY <1>3 DEF Typed, Reached, TakeChunk, LiveIdle
<1>4. CASE InsertChunk
  <2> DEFINE new == ReconcileChunk(stable, chunk)
  <2>1. CASE new = <<>>
    <3>1. stable' = stable
      BY <1>0, <1>4, <2>1, ConcatEmptySeq DEF InsertChunk
    <3>2. QED
      BY <1>4, <2>1, <3>1 DEF Typed, Reached, InsertChunk
  <2>2. CASE new # <<>>
    <3>1. paste'.words = new /\ stable' = stable \o new /\ worker' = "typing" /\ at' = "route" /\ target' = target
      BY <1>4, <2>2 DEF InsertChunk, NoPaste
    <3> HIDE DEF new
    <3>2. QED
      BY <1>4, <3>1 DEF Typed, Reached, InsertChunk
  <2>3. QED
    BY <2>1, <2>2
<1>5. CASE ChunkTyped
  BY <1>5 DEF Typed, Reached, ChunkTyped
<1>6. CASE ChunkFailed
  BY <1>6 DEF Typed, Reached, ChunkFailed
<1>7. CASE Transcribe
  BY <1>7 DEF Typed, Reached, Transcribe
<1>8. CASE Deliver
  BY <1>8 DEF Typed, Reached, Deliver
<1>9. CASE FinalTyped \/ FinalFailed \/ CopyBoth
  BY <1>9 DEF Typed, Reached, FinalTyped, FinalFailed, CopyBoth
<1>10. CASE Route \/ PasteKey
  <2>0. at # "free"
    BY <1>10 DEF Route, PasteKey
  <2>1. /\ at' \in {"typed", "look"} => target' = target \o paste.words
        /\ at' \notin {"typed", "look"} => target' = target
        /\ at' # "restore" /\ ~Reached
    BY <1>10 DEF Route, PasteKey, Reached
  <2>2. UNCHANGED <<source, paused, final, worker, paste, stable, lastResult>>
    BY <1>10 DEF Route, PasteKey
  <2>3. worker = "typing" \/ final = "typing"
    BY <2>0 DEF Inserting, WordsTypeOK, Pastes
  <2>4. target' # <<>> \/ target' = target
    BY <1>0, <2>0, <2>1
  <2>5. Reached' => target' # <<>>
    BY <1>0, <2>0, <2>1 DEF Reached
  <2>6. /\ source # "cancelled" /\ ~paused /\ final \in {"off", "transcribe", "deliver"} =>
             target \o paste.words = stable
    BY <2>1, <2>3 DEF Typed, Phases
  <2>7. QED
    BY <2>1, <2>2, <2>3, <2>4, <2>5, <2>6 DEF Typed, Reached
<1>11. CASE PasteRead
  <2>1. paste'.words = paste.words
    BY <1>0, <1>11 DEF PasteRead, Pastes
  <2>2. QED
    BY <1>11, <2>1 DEF Typed, Reached, PasteRead
<1>12. CASE PasteCopy \/ PasteLook \/ PasteRestore
  BY <1>12 DEF Typed, Reached, PasteCopy, PasteLook, PasteRestore
<1>13. CASE UNCHANGED vars
  BY <1>13 DEF Typed, Reached, vars
<1>14. QED
  BY <1>1, <1>2, <1>3, <1>4, <1>5, <1>6, <1>7, <1>8, <1>9, <1>10, <1>11, <1>12, <1>13
     DEF Next, LiveStep, FinalStep, PasteStep

\* Steps of others do not change what the final insertion compares.
LEMMA SettledKept ==
  ASSUME Settled, UNCHANGED <<source, heard, mode, final, text, result, copied, paste, target, stable, paused>>,
         Reached' <=> Reached
  PROVE  Settled'
<1>1. Remaining' = Remaining
  BY DEF Remaining
<1>2. (AllTyped' <=> AllTyped) /\ (NoneTyped' <=> NoneTyped)
  BY <1>1 DEF AllTyped, NoneTyped
<1>3. QED
  BY <1>1, <1>2 DEF Settled

\* What the final insertion did is what its result says.
LEMMA StepSettled == LiveTextInv /\ [Next]_vars => Settled'
<1> SUFFICES ASSUME Placed, TypeOK, WordsTypeOK, Inserting, Phases, Typed, Settled, [Next]_vars
             PROVE  Settled'
  BY DEF LiveTextInv, Placed
<1>0. /\ stable \in Seq(Nat) /\ target \in Seq(Nat) /\ text \in Seq(Nat) /\ result \in Results
      /\ paste \in Pastes /\ paste.words \in Seq(Nat)
      /\ at # "free" => paste.words # <<>>
  BY DEF WordsTypeOK, Pastes, Inserting
<1> USE DEF audioVars, liveVars, finalVars, pasteVars, PasteKeeps
<1>1. CASE RequestStop \/ UserCopies
  BY <1>1, SettledKept DEF Reached, RequestStop, UserCopies
<1>2. CASE Speak \/ Cancel
  BY <1>2 DEF Settled, Phases, Speak, Cancel
<1>3. CASE StopCapture
  BY <1>3, SpeechIs DEF Settled, Phases, StopCapture
<1>4. CASE TakeChunk
  BY <1>4, SettledKept DEF Reached, TakeChunk, LiveIdle
<1>5. CASE InsertChunk \/ ChunkTyped \/ ChunkFailed
  <2>1. final = "off" \/ (final = "done" /\ source # "stopped")
    BY <1>5 DEF Phases, TypeOK, InsertChunk, ChunkTyped, ChunkFailed
  <2>2. UNCHANGED <<final, source, result, copied>>
    BY <1>5 DEF InsertChunk, ChunkTyped, ChunkFailed
  <2>3. QED
    BY <2>1, <2>2 DEF Settled
<1>6. CASE Transcribe
  BY <1>6 DEF Settled, Transcribe
<1>7. CASE Deliver
  <2>1. source = "stopped" /\ text # <<>> /\ NoneTyped /\ worker = "ended"
    BY <1>7, TextInPass DEF Deliver, Typed, NoneTyped, Phases
  <2>2. /\ UNCHANGED <<source, heard, mode, text, stable, target, paused, lastResult>>
        /\ result = Nothing /\ copied = <<>> /\ lastResult \in BOOLEAN
    BY <1>7 DEF Deliver, Settled, TypeOK
  <2>3. Remaining' = Remaining
    BY <2>2 DEF Remaining
  <2>4. (AllTyped' <=> AllTyped) /\ (NoneTyped' <=> NoneTyped) /\ NoneTyped'
    BY <2>1, <2>2, <2>3 DEF AllTyped, NoneTyped
  <2>5. CASE mode = "clipboard"
    <3>1. /\ final' = "done" /\ result'.inserted = lastResult
          /\ result'.copied => copied' = text
      BY <1>7, <2>5 DEF Deliver
    <3>2. result'.inserted => target' # <<>>
      BY <2>2, <3>1 DEF Typed
    <3>3. QED
      BY <2>2, <2>4, <2>5, <3>1, <3>2 DEF Settled
  <2>6. CASE mode # "clipboard" /\ Remaining = <<>>
    <3>1. ~paused /\ stable # <<>>
      BY <2>1, <2>6 DEF Remaining, ReconcileFinal
    <3>2. lastResult
      BY <2>1, <3>1 DEF Typed
    <3>3. /\ final' = "both" /\ result'.inserted /\ ~result'.copied
      <4>1. final' = "both" /\ result' = [inserted |-> lastResult, copied |-> ~lastResult]
        BY <1>7, <2>6 DEF Deliver
      <4>2. result'.inserted = lastResult /\ result'.copied = ~lastResult
        BY <4>1
      <4>3. QED
        BY <3>2, <4>1, <4>2
    <3>4. AllTyped
      BY <1>0, <2>1, <2>6, <3>1, ConcatEmptySeq DEF AllTyped, NoneTyped
    <3>5. target' # <<>>
      BY <2>2, <3>2 DEF Typed
    <3>6. QED
      BY <2>2, <2>4, <3>3, <3>4, <3>5 DEF Settled
  <2>7. CASE mode # "clipboard" /\ Remaining # <<>>
    <3>1. /\ final' = "typing" /\ paste'.words = Remaining /\ at' = "route"
          /\ result' = result /\ copied' = copied
      BY <1>7, <2>7 DEF Deliver, NoPaste
    <3>2. QED
      BY <2>2, <2>3, <2>4, <2>7, <3>1 DEF Settled, Reached
  <2>8. QED
    BY <2>5, <2>6, <2>7
<1>8. CASE FinalTyped \/ FinalFailed
  <2>1. /\ UNCHANGED <<source, heard, mode, text, stable, target, paused>>
        /\ final = "typing" /\ mode # "clipboard" /\ paste.words = Remaining
        /\ result = Nothing /\ copied = <<>> /\ paste.words # <<>>
    BY <1>0, <1>8 DEF FinalTyped, FinalFailed, Settled
  <2>2. Remaining' = Remaining
    BY <2>1 DEF Remaining
  <2>3. (AllTyped' <=> AllTyped) /\ (NoneTyped' <=> NoneTyped)
    BY <2>1, <2>2 DEF AllTyped, NoneTyped
  <2>4. CASE FinalTyped
    <3>1. final' = "both" /\ result'.inserted /\ ~result'.copied /\ Reached
      BY <2>4 DEF FinalTyped, Reached
    <3>2. AllTyped /\ target # <<>>
      BY <2>1, <3>1 DEF Settled, Typed
    <3>3. QED
      BY <2>1, <2>3, <3>1, <3>2 DEF Settled
  <2>5. CASE FinalFailed
    <3>1. ~Reached /\ NoneTyped
      BY <2>1, <2>5 DEF FinalFailed, Reached, Settled
    <3>2. ~result.inserted /\ ~result.copied
      BY <2>1 DEF Nothing
    <3>3. /\ final' \in {"both", "done"} /\ ~result'.inserted
          /\ result'.copied => copied' = paste.words
      BY <1>0, <2>5, <3>2 DEF FinalFailed, Results
    <3>4. QED
      BY <2>1, <2>2, <2>3, <3>1, <3>3 DEF Settled
  <2>6. QED
    BY <1>8, <2>4, <2>5
<1>9. CASE CopyBoth
  <2>1. /\ UNCHANGED <<source, heard, mode, text, stable, target, paused>>
        /\ final = "both" /\ final' = "done"
    BY <1>9 DEF CopyBoth
  <2>2. Remaining' = Remaining
    BY <2>1 DEF Remaining
  <2>3. (AllTyped' <=> AllTyped) /\ (NoneTyped' <=> NoneTyped)
    BY <2>1, <2>2 DEF AllTyped, NoneTyped
  <2>4. CASE UNCHANGED <<copied, result>>
    BY <2>1, <2>2, <2>3, <2>4 DEF Settled
  <2>5. CASE ~UNCHANGED <<copied, result>>
    <3>1. result'.inserted = result.inserted /\ (result'.copied => copied' = text)
      BY <1>0, <1>9, <2>5 DEF CopyBoth, Results
    <3>2. QED
      BY <2>1, <2>2, <2>3, <3>1 DEF Settled
  <2>6. QED
    BY <2>4, <2>5
<1>10. CASE Route \/ PasteKey
  <2>0. at # "free" /\ ~Reached
    BY <1>10 DEF Route, PasteKey, Reached
  <2>1. /\ Reached' => target' = target \o paste.words
        /\ ~Reached' => target' = target
    BY <1>10 DEF Route, PasteKey, Reached
  <2>2. UNCHANGED <<source, heard, mode, final, text, result, copied, paste, stable, paused>>
    BY <1>10 DEF Route, PasteKey
  <2>3. Remaining' = Remaining
    BY <2>2 DEF Remaining
  <2>4. CASE final = "typing"
    <3>1. NoneTyped /\ paste.words = Remaining
      BY <2>0, <2>4 DEF Settled
    <3>2. ~Reached' => NoneTyped'
      BY <2>1, <2>2, <3>1 DEF NoneTyped
    <3>3. Reached' => AllTyped'
      <4>1. paused => Remaining = text
        BY DEF Remaining
      <4>2. IsSuffix(text, target \o text)
        BY <1>0, ConcatEnds
      <4>3. QED
        BY <2>1, <2>2, <2>3, <3>1, <4>1, <4>2 DEF AllTyped, NoneTyped, IsSuffix
    <3>4. QED
      BY <2>2, <2>3, <2>4, <3>1, <3>2, <3>3 DEF Settled
  <2>5. CASE final # "typing"
    <3>1. worker = "typing"
      BY <2>0, <2>5 DEF Inserting, WordsTypeOK, Pastes
    <3>2. source # "stopped"
      BY <3>1 DEF Phases
    <3>3. QED
      BY <2>2, <2>5, <3>2 DEF Settled
  <2>6. QED
    BY <2>4, <2>5
<1>11. CASE PasteRead
  <2>1. paste'.words = paste.words
    BY <1>0, <1>11 DEF PasteRead, Pastes
  <2>2. /\ UNCHANGED <<source, heard, mode, final, text, result, copied, target, stable, paused>>
        /\ Reached' <=> Reached
    BY <1>11 DEF PasteRead, Reached
  <2>3. Remaining' = Remaining
    BY <2>2 DEF Remaining
  <2>4. (AllTyped' <=> AllTyped) /\ (NoneTyped' <=> NoneTyped)
    BY <2>2, <2>3 DEF AllTyped, NoneTyped
  <2>5. QED
    BY <2>1, <2>2, <2>3, <2>4 DEF Settled
<1>12. CASE PasteCopy \/ PasteLook \/ PasteRestore
  <2>1. UNCHANGED <<source, heard, mode, final, text, result, copied, paste, target, stable, paused>>
    BY <1>12 DEF PasteCopy, PasteLook, PasteRestore
  <2>2. Reached' <=> Reached
    BY <1>12 DEF PasteCopy, PasteLook, PasteRestore, Reached
  <2>3. QED
    BY <2>1, <2>2, SettledKept
<1>13. CASE UNCHANGED vars
  BY <1>13, SettledKept DEF vars, Reached
<1>14. QED
  BY <1>1, <1>2, <1>3, <1>4, <1>5, <1>6, <1>7, <1>8, <1>9, <1>10, <1>11, <1>12, <1>13
     DEF Next, LiveStep, FinalStep, PasteStep

-----------------------------------------------------------------------------
(***************************************************************************)
(* What the reconciler knows                                               *)
(***************************************************************************)

\* A hypothesis of what was said behind `before': a word of it may be noise, and
\* behind its word q all are.
Hypothesis(incoming, before, q) ==
  /\ \A i \in (q + 1)..Len(incoming) : incoming[i] \in Noises
  /\ \A i \in 1..q : incoming[i] \in Noises \/ incoming[i] = speech[before + i]
  /\ q > 0 => incoming[q] = speech[before + q]

\* A chunk adds words that were said after the ones it knows, and noise.
LEMMA OrderedOn ==
  ASSUME speech \in Seq(Nat), NEW to \in 1..Len(speech), NEW from \in 0..(to - 1), NEW back \in 0..from,
         NEW known \in Seq(Nat), NEW wrong \in Nat, NEW more \in Nat, Ordered(known, from, wrong),
         NEW incoming \in Seq(Nat), Len(incoming) = to - from + back,
         NEW q \in back..Len(incoming), Len(incoming) - q <= more,
         Hypothesis(incoming, from - back, q),
         NEW n \in 0..Len(incoming), NEW sum, sum = known \o LastOf(incoming, Len(incoming) - n)
  PROVE  Ordered(sum, to, wrong + more)
<1> DEFINE L == Len(known)  c == Len(incoming)  new == LastOf(incoming, Len(incoming) - n)
<1>1. L \in Nat /\ c \in Nat /\ q \in Nat /\ n \in Nat /\ to \in Nat /\ from \in Nat /\ back \in Nat /\ n <= c /\ back <= from
      /\ back <= q /\ q <= c /\ from < to /\ c = to - from + back
      /\ wrong \in Nat /\ more \in Nat /\ c - q <= more
  BY LenProperties
<1> HIDE DEF L, c
<1>2. new \in Seq(Nat) /\ Len(new) = c - n /\ \A i \in 1..(c - n) : new[i] = incoming[n + i]
  BY RestIs DEF c
<1> HIDE DEF new
<1>3. /\ Len(sum) = L + (c - n) /\ \A i \in 1..L : sum[i] = known[i]
      /\ \A i \in (L + 1)..(L + (c - n)) : sum[i] = new[i - L]
  <2>1. sum = known \o new
    BY DEF new
  <2>2. /\ Len(known \o new) = Len(known) + Len(new)
        /\ \A i \in 1..(Len(known) + Len(new)) :
             (known \o new)[i] = IF i <= Len(known) THEN known[i] ELSE new[i - Len(known)]
    BY <1>2, ConcatIs
  <2>3. QED
    <3>1. Len(known) = L /\ Len(new) = c - n
      BY <1>2 DEF L
    <3>2. /\ Len(sum) = L + (c - n)
          /\ \A i \in 1..(L + (c - n)) : sum[i] = IF i <= L THEN known[i] ELSE new[i - L]
      BY <2>1, <2>2, <3>1
    <3>3. ASSUME NEW i \in 1..L PROVE i \in 1..(L + (c - n)) /\ i <= L
      BY <1>1
    <3>4. ASSUME NEW i \in (L + 1)..(L + (c - n)) PROVE i \in 1..(L + (c - n)) /\ ~(i <= L)
      BY <1>1
    <3>5. QED
      BY <3>2, <3>3, <3>4
<1>4. ASSUME NEW i \in (L + 1)..(L + (c - n)) PROVE n + (i - L) \in (n + 1)..c /\ sum[i] = incoming[n + (i - L)]
  <2>1. i - L \in 1..(c - n) /\ n + (i - L) \in (n + 1)..c
    BY <1>1
  <2>2. QED
    BY <1>2, <1>3, <2>1
<1>5. PICK p \in 0..L :
        /\ L - p <= wrong
        /\ \A i \in (p + 1)..L : known[i] \in Noises
        /\ \A i \in 1..p :
             \/ known[i] \in Noises
             \/ \E j \in 1..from, k \in 1..from :
                  j <= k /\ known[i] = speech[j] /\ known[p] = speech[k]
  BY DEF Ordered, L
<1>6. CASE n < q
  <2> DEFINE r == L + (q - n)
  <2>1. r \in 0..Len(sum) /\ Len(sum) - r <= wrong + more /\ r \in (L + 1)..(L + (c - n)) /\ n + (r - L) = q
    BY <1>1, <1>3, <1>6
  <2>2. ASSUME NEW i \in (r + 1)..Len(sum) PROVE sum[i] \in Noises
    <3>1. i \in (L + 1)..(L + (c - n)) /\ n + (i - L) \in (q + 1)..c
      BY <1>1, <1>3, <1>6, <2>1
    <3>2. QED
      BY <1>4, <3>1 DEF c, Hypothesis
  <2>3. from - back + q \in 1..to /\ from <= from - back + q /\ sum[r] = speech[from - back + q]
    <3>1. sum[r] = incoming[q]
      BY <1>4, <2>1
    <3>2. from - back + q \in 1..to /\ from <= from - back + q /\ q > 0
      BY <1>1, <1>6
    <3>3. QED
      BY <3>1, <3>2 DEF Hypothesis
  <2>4. ASSUME NEW i \in 1..r, sum[i] \notin Noises
        PROVE  \E j \in 1..to, k \in 1..to : j <= k /\ sum[i] = speech[j] /\ sum[r] = speech[k]
    <3>1. CASE i <= L
      <4>0. i \in 1..L /\ p \in Nat /\ i \in Nat
        BY <1>1, <2>1, <3>1
      <4>1. i \in 1..p
        <5>1. i \notin (p + 1)..L
          BY <1>3, <1>5, <2>4, <4>0
        <5>2. QED
          BY <1>1, <4>0, <5>1
      <4>2. PICK j \in 1..from : known[i] = speech[j]
        BY <1>3, <1>5, <2>4, <4>0, <4>1
      <4>3. j \in 1..to /\ j <= from - back + q
        <5>1. from - back + q \in Nat /\ from <= from - back + q
          BY <1>1
        <5>2. QED
          BY <1>1, <5>1
      <4>4. QED
        BY <1>3, <2>3, <4>0, <4>2, <4>3
    <3>2. CASE ~(i <= L)
      <4> DEFINE m == n + (i - L)  j == from - back + m
      <4>1. i \in (L + 1)..(L + (c - n)) /\ m \in 1..q
        BY <1>1, <2>1, <3>2
      <4>2. j \in 1..to /\ j <= from - back + q
        BY <1>1, <4>1
      <4>3. sum[i] = incoming[m]
        BY <1>4, <4>1
      <4>4. sum[i] = speech[j]
        BY <2>4, <4>1, <4>3 DEF Hypothesis
      <4> HIDE DEF j
      <4>5. QED
        BY <2>3, <4>2, <4>4
    <3>3. QED
      BY <3>1, <3>2
  <2> HIDE DEF r
  <2>5. QED
    BY <2>1, <2>2, <2>4 DEF Ordered
<1>7. CASE ~(n < q)
  <2>1. p \in 0..Len(sum) /\ Len(sum) - p <= wrong + more
    BY <1>1, <1>3, <1>5, <1>7
  <2>2. ASSUME NEW i \in (p + 1)..Len(sum) PROVE sum[i] \in Noises
    <3>1. CASE i <= L
      <4>1. i \in (p + 1)..L /\ i \in 1..L
        BY <1>1, <3>1
      <4>2. QED
        BY <1>3, <1>5, <4>1
    <3>2. CASE ~(i <= L)
      <4>1. i \in (L + 1)..(L + (c - n)) /\ n + (i - L) \in (q + 1)..c
        <5>1. i \in Nat /\ i <= L + (c - n)
          <6>1. p \in Nat /\ L + (c - n) \in Nat
            BY <1>1
          <6>2. i \in (p + 1)..(L + (c - n))
            BY <1>3
          <6>3. QED
            BY <6>1, <6>2
        <5>2. QED
          BY <1>1, <1>7, <3>2, <5>1
      <4>2. QED
        BY <1>4, <4>1 DEF c, Hypothesis
    <3>3. QED
      BY <3>1, <3>2
  <2>3. ASSUME NEW i \in 1..p, sum[i] \notin Noises
        PROVE  \E j \in 1..to, k \in 1..to : j <= k /\ sum[i] = speech[j] /\ sum[p] = speech[k]
    <3>1. i \in 1..L /\ p \in 1..L
      BY <1>1
    <3>2. PICK j \in 1..from, k \in 1..from : j <= k /\ known[i] = speech[j] /\ known[p] = speech[k]
      BY <1>3, <1>5, <2>3, <3>1
    <3>3. j \in 1..to /\ k \in 1..to
      BY <1>1
    <3>4. QED
      BY <1>3, <3>1, <3>2, <3>3
  <2>4. QED
    BY <2>1, <2>2, <2>3 DEF Ordered
<1>8. QED
  BY <1>6, <1>7

\* What was said is a hypothesis of itself, and so it is with a word misheard.
LEMMA SaidHypothesis ==
  ASSUME NEW s \in Seq(Nat), NEW b \in Nat, \A j \in 1..Len(s) : s[j] = speech[b + j]
  PROVE  Hypothesis(s, b, Len(s))
<1>1. Len(s) \in Nat /\ (Len(s) + 1)..Len(s) = {} /\ (Len(s) > 0 => Len(s) \in 1..Len(s))
  BY LenProperties
<1>2. QED
  BY <1>1 DEF Hypothesis

LEMMA NoiseHypothesis ==
  ASSUME NEW s \in Seq(Nat), NEW b \in Nat, \A j \in 1..Len(s) : s[j] = speech[b + j],
         NEW i \in 1..Len(s), NEW noise \in Noises, NEW h, h = [s EXCEPT ![i] = noise]
  PROVE  /\ h \in Seq(Nat) /\ Len(h) = Len(s)
         /\ \E q \in 0..Len(h) : Len(h) - 1 <= q /\ i - 1 <= q /\ Hypothesis(h, b, q)
<1>1. Len(s) \in Nat /\ noise \in Nat /\ i \in Nat /\ i >= 1 /\ i <= Len(s)
  BY LenProperties, LiveTextAssumption
<1>2. /\ h \in Seq(Nat) /\ Len(h) = Len(s)
      /\ \A j \in 1..Len(s) : h[j] = IF j = i THEN noise ELSE s[j]
  BY <1>1, ExceptSeq
<1>3. \A j \in 1..Len(s) : h[j] \in Noises \/ h[j] = speech[b + j]
  BY <1>2
<1>4. h[i] \in Noises /\ \A j \in 1..Len(s) : j # i => h[j] = speech[b + j]
  BY <1>2
<1>5. CASE i = Len(s)
  <2> DEFINE q == Len(s) - 1
  <2>1. /\ q \in 0..Len(s) /\ Len(s) - 1 <= q /\ i - 1 <= q
        /\ \A j \in (q + 1)..Len(s) : j = i
        /\ \A j \in 1..q : j \in 1..Len(s)
        /\ q > 0 => q \in 1..Len(s) /\ q # i
    BY <1>1, <1>5
  <2> HIDE DEF q
  <2>2. Hypothesis(h, b, q)
    BY <1>2, <1>3, <1>4, <2>1 DEF Hypothesis
  <2>3. QED
    BY <1>2, <2>1, <2>2
<1>6. CASE i # Len(s)
  <2> DEFINE q == Len(s)
  <2>1. /\ q \in 0..Len(s) /\ Len(s) - 1 <= q /\ i - 1 <= q /\ (q + 1)..Len(s) = {}
        /\ q \in 1..Len(s)
    BY <1>1
  <2>2. Hypothesis(h, b, q)
    BY <1>2, <1>3, <1>4, <1>6, <2>1 DEF Hypothesis
  <2>3. QED
    BY <1>2, <2>1, <2>2
<1>7. QED
  BY <1>5, <1>6

\* The chunk that waits is reconciled into what was heard so far.
LEMMA ChunkFollows ==
  ASSUME TypeOK, WordsTypeOK, NEW from \in 0..(offset - 1), NEW back \in 0..Repeats, back <= from,
         Awaits(from, back), NEW sum, sum = stable \o ReconcileChunk(stable, chunk)
  PROVE  /\ Ordered(sum, offset, misheard)
         /\ Distinct /\ misheard = 0 /\ Repeats <= Overlap => sum = Said(0, offset)
<1> DEFINE b == from - back  s == SubSeq(speech, b + 1, offset)
<1>1. /\ speech \in Seq(Nat) /\ Len(speech) \in Nat /\ offset \in 1..Len(speech) /\ offset \in 0..Len(speech)
      /\ offset \in Nat /\ from \in Nat /\ from < offset /\ from \in 0..offset
      /\ back \in Nat /\ back \in 0..from /\ misheard \in Nat /\ stable \in Seq(Nat) /\ chunk \in Seq(Nat)
      /\ Repeats \in Nat /\ Overlap \in Nat /\ back <= Repeats
  BY SpeechIs, LiveTextAssumption DEF TypeOK, WordsTypeOK
<1>2. b \in Nat /\ b \in 0..offset /\ offset - b = offset - from + back
  BY <1>1
<1>3. s \in Seq(Nat) /\ Len(s) = offset - b /\ \A j \in 1..(offset - b) : s[j] = speech[b + j]
  <2> HIDE DEF b
  <2>1. QED
    BY <1>1, <1>2, SliceIs
<1>4. Said(from - back, offset) = s
  BY DEF Said
<1>5. PICK n \in 0..Len(chunk) : ReconcileChunk(stable, chunk) = LastOf(chunk, Len(chunk) - n)
  BY <1>1, ChunkRest
<1>6. CASE /\ chunk = s
           /\ Ordered(stable, from, misheard) /\ Exactly(from)
  <2>1. Hypothesis(chunk, from - back, Len(chunk)) /\ Len(chunk) = offset - from + back
    <3>1. Hypothesis(s, b, Len(s))
      BY <1>2, <1>3, SaidHypothesis
    <3>2. QED
      BY <1>2, <1>3, <1>6, <3>1
  <2>2. Len(chunk) \in back..Len(chunk) /\ Len(chunk) - Len(chunk) <= 0 /\ misheard + 0 = misheard /\ from \in 0..(offset - 1)
    BY <1>1, <2>1
  <2>3. Ordered(sum, offset, misheard + 0)
    BY <1>1, <1>5, <1>6, <2>1, <2>2, OrderedOn
  <2>4. ASSUME Distinct, misheard = 0, Repeats <= Overlap
        PROVE  sum = Said(0, offset)
    <3>1. stable = Said(0, from) /\ chunk = Said(from - back, offset) /\ back <= Overlap
      BY <1>1, <1>4, <1>6, <2>4 DEF Exactly
    <3>2. AllDiffer(speech)
      BY <1>1, <2>4 DEF Distinct, AllDiffer
    <3>3. stable \o ReconcileChunk(stable, chunk) = Said(0, offset)
      <4> HIDE DEF s, b
      <4> HIDE DEF s, b
      <4>1. QED
        BY <1>1, <3>1, <3>2, ChunkExact
    <3>4. QED
      BY <3>3
  <2>5. QED
    BY <2>2, <2>3, <2>4
<1>7. ASSUME NEW i \in (back + 1)..(offset - from + back), NEW noise \in Noises,
             chunk = [s EXCEPT ![i] = noise], misheard > 0, Ordered(stable, from, misheard - 1)
      PROVE  Ordered(sum, offset, misheard)
  <2>1. i \in 1..Len(s) /\ i >= back + 1
    <3>1. Len(s) = offset - from + back /\ offset - from + back \in Nat
      BY <1>1, <1>2, <1>3
    <3>2. QED
      BY <1>1, <3>1
  <2>2. PICK q \in 0..Len(chunk) : Len(chunk) - 1 <= q /\ i - 1 <= q /\ Hypothesis(chunk, b, q)
    <3> HIDE DEF s, b
    <3>1. QED
      BY <1>2, <1>3, <1>7, <2>1, NoiseHypothesis
  <2>3. Len(chunk) = offset - from + back
    <3> HIDE DEF s, b
    <3>1. QED
      BY <1>2, <1>3, <1>7, <2>1, NoiseHypothesis
  <2>4. q \in back..Len(chunk) /\ Len(chunk) - q <= 1 /\ misheard - 1 \in Nat /\ (misheard - 1) + 1 = misheard
    BY <1>1, <1>7, <2>1, <2>2, <2>3
  <2> DEFINE w == misheard - 1
  <2>5. w \in Nat /\ w + 1 = misheard /\ Ordered(stable, from, w)
    BY <1>7, <2>4
  <2> HIDE DEF w, s
  <2>6. Ordered(sum, offset, w + 1)
    BY <1>1, <1>5, <2>2, <2>3, <2>4, <2>5, OrderedOn
  <2>7. QED
    BY <2>5, <2>6
<1>8. CASE \E i \in (back + 1)..(offset - from + back), noise \in Noises :
             chunk = [s EXCEPT ![i] = noise] /\ misheard > 0 /\ Ordered(stable, from, misheard - 1)
  <2>1. Ordered(sum, offset, misheard)
    BY <1>7, <1>8
  <2>2. misheard # 0
    BY <1>1, <1>8
  <2>3. QED
    BY <2>1, <2>2
<1>9. QED
  BY <1>4, <1>6, <1>8 DEF Awaits

\* Steps that leave the words alone leave what is known of them.
LEMMA FollowedKept ==
  ASSUME Followed, UNCHANGED <<speech, offset, chunk, stable, misheard>>,
         source' # "cancelled" => source # "cancelled", worker' = "insert" <=> worker = "insert"
  PROVE  Followed'
<1>1. \A from, to : Said(from, to)' = Said(from, to)
  BY DEF Said
<1>3. Ordered(stable, offset, misheard)' <=> Ordered(stable, offset, misheard)
  BY DEF Ordered
<1>4. \A from : Exactly(from)' <=> Exactly(from)
  BY DEF Exactly, Distinct, Said
<1>5. Exactly(offset)' <=> Exactly(offset)
  BY DEF Exactly, Distinct, Said
<1>6. \A from, back : Awaits(from, back)' <=> Awaits(from, back)
  <2> SUFFICES ASSUME NEW from, NEW back PROVE Awaits(from, back)' <=> Awaits(from, back)
    OBVIOUS
  <2>1. /\ Ordered(stable, from, misheard)' <=> Ordered(stable, from, misheard)
        /\ Ordered(stable, from, misheard - 1)' <=> Ordered(stable, from, misheard - 1)
    BY DEF Ordered
  <2>2. Said(from - back, offset)' = Said(from - back, offset)
    BY DEF Said
  <2>3. QED
    BY <1>4, <2>1, <2>2 DEF Awaits
<1>7. QED
  BY <1>3, <1>5, <1>6 DEF Followed

\* Every chunk is reconciled with the words that were heard before it.
LEMMA StepFollowed == LiveTextInv /\ [Next]_vars => Followed'
<1> SUFFICES ASSUME TypeOK, WordsTypeOK, Phases, Followed, [Next]_vars PROVE Followed'
  BY DEF LiveTextInv, Placed
<1> USE DEF audioVars, liveVars, finalVars, pasteVars, PasteKeeps
<1>1. CASE Speak \/ RequestStop \/ UserCopies \/ StopCapture
  BY <1>1, FollowedKept DEF Speak, RequestStop, UserCopies, StopCapture
<1>2. CASE Cancel
  BY <1>2 DEF Followed, Cancel
<1>3. CASE TakeChunk
  <2>1. CASE stop \/ source # "open"
    BY <1>3, <2>1, FollowedKept DEF TakeChunk, LiveIdle
  <2>2. CASE ~(stop \/ source # "open")
    <3>1. PICK back \in 0..Repeats :
            /\ back <= offset
            /\ LET said == SubSeq(speech, offset - back + 1, heard) IN
               \/ chunk' = said /\ UNCHANGED misheard
               \/ \E i \in (back + 1)..Len(said), noise \in Noises :
                    chunk' = [said EXCEPT ![i] = noise] /\ misheard' = misheard + 1
      BY <1>3, <2>2 DEF TakeChunk
    <3>2. /\ offset < heard /\ offset' = heard /\ worker' = "insert" /\ worker = "wait"
          /\ UNCHANGED <<speech, stable, source>>
      BY <1>3, <2>2 DEF TakeChunk, LiveIdle
    <3>3. Ordered(stable, offset, misheard) /\ Exactly(offset)
      BY <2>2, <3>2 DEF Followed
    <3>4. /\ offset \in Nat /\ heard \in Nat /\ misheard \in Nat /\ back \in Nat /\ speech \in Seq(Nat)
          /\ heard \in 0..Len(speech)
      BY SpeechIs, LiveTextAssumption DEF TypeOK
    <3>5. PICK from \in Nat : from = offset
      BY <3>4
    <3> DEFINE said == SubSeq(speech, from - back + 1, heard)
    <3>6. Len(said) = heard - from + back
      <4> DEFINE b == from - back
      <4>1. b \in 0..heard /\ heard - b = heard - from + back
        BY <3>1, <3>2, <3>4, <3>5
      <4> HIDE DEF b
      <4>2. Len(SubSeq(speech, b + 1, heard)) = heard - b
        BY <3>4, <4>1, SliceIs
      <4>3. QED
        BY <4>1, <4>2 DEF b
    <3>7. said = Said(from - back, offset)'
      BY <3>2 DEF Said
    <3>8. Ordered(stable, from, misheard)
      BY <3>3, <3>5
    <3>9. ASSUME chunk' = said, misheard' = misheard
          PROVE  Awaits(from, back)'
      <4>1. Ordered(stable, from, misheard)'
        BY <3>2, <3>8, <3>9 DEF Ordered
      <4>2. Exactly(from)
        BY <3>3, <3>5
      <4>3. Exactly(from)'
        BY <3>2, <3>9, <4>2 DEF Exactly, Distinct, Said
      <4>4. QED
        BY <3>7, <3>9, <4>1, <4>3 DEF Awaits
    <3>10. ASSUME NEW i \in (back + 1)..Len(said), NEW noise \in Noises,
                  chunk' = [said EXCEPT ![i] = noise], misheard' = misheard + 1
           PROVE  Awaits(from, back)'
      <4>1. misheard' > 0 /\ misheard' - 1 = misheard
        BY <3>4, <3>10
      <4>2. Ordered(stable, from, misheard - 1)'
        BY <3>2, <3>8, <4>1 DEF Ordered
      <4>3. i \in (back + 1)..(offset' - from + back)
        BY <3>2, <3>6
      <4>4. QED
        BY <3>7, <3>10, <4>1, <4>2, <4>3 DEF Awaits
    <3>11. Awaits(from, back)'
      BY <3>1, <3>5, <3>9, <3>10
    <3>12. from \in 0..(offset' - 1) /\ back <= from
      BY <3>1, <3>2, <3>4, <3>5
    <3>13. QED
      BY <3>2, <3>11, <3>12 DEF Followed
  <2>3. QED
    BY <2>1, <2>2
<1>4. CASE InsertChunk
  <2>0. SUFFICES ASSUME source # "cancelled" PROVE Followed'
    BY <1>4 DEF Followed, InsertChunk
  <2>1. PICK from \in 0..(offset - 1), back \in 0..Repeats : back <= from /\ Awaits(from, back)
    BY <1>4, <2>0 DEF InsertChunk, Followed
  <2> DEFINE sum == stable \o ReconcileChunk(stable, chunk)
  <2>2. /\ Ordered(sum, offset, misheard)
        /\ Distinct /\ misheard = 0 /\ Repeats <= Overlap => sum = Said(0, offset)
    BY <2>1, ChunkFollows
  <2>3. stable' = sum /\ UNCHANGED <<speech, offset, misheard>> /\ worker' # "insert"
    BY <1>4 DEF InsertChunk
  <2> HIDE DEF sum
  <2>4. Ordered(stable, offset, misheard)'
    BY <2>2, <2>3 DEF Ordered
  <2>5. Exactly(offset)'
    BY <2>2, <2>3 DEF Exactly, Distinct, Said
  <2>6. QED
    BY <2>3, <2>4, <2>5 DEF Followed
<1>5. CASE ChunkTyped \/ ChunkFailed
  BY <1>5, FollowedKept DEF ChunkTyped, ChunkFailed
<1>6. CASE FinalStep
  BY <1>6, FollowedKept DEF FinalStep, Transcribe, Deliver, FinalTyped, FinalFailed, CopyBoth
<1>7. CASE PasteStep
  BY <1>7, FollowedKept
     DEF PasteStep, Route, PasteRead, PasteCopy, PasteKey, PasteLook, PasteRestore
<1>8. CASE UNCHANGED vars
  BY <1>8, FollowedKept DEF vars
<1>9. QED
  BY <1>1, <1>2, <1>3, <1>4, <1>5, <1>6, <1>7, <1>8 DEF Next, LiveStep

-----------------------------------------------------------------------------
(***************************************************************************)
(* The theorems                                                            *)
(***************************************************************************)

\* In the beginning nothing was said, known, typed or borrowed.
LEMMA InitInv == Init => LiveTextInv
<1> SUFFICES ASSUME Init PROVE LiveTextInv
  OBVIOUS
<1>1. TypeOK /\ WordsTypeOK
  BY InitTypes
<1>2. Inserting
  BY DEF Init, Inserting, NoPaste
<1>3. Phases
  BY DEF Init, Phases
<1>4. Lent
  BY DEF Init, Lent, Users
<1>5. Typed
  BY DEF Init, Typed, Reached
<1>6. Settled
  BY DEF Init, Settled
<1>7. Followed
  <2>1. worker # "insert" /\ stable = <<>> /\ offset = 0 /\ Len(stable) = 0
    BY NoWords DEF Init
  <2>2. Ordered(stable, offset, misheard)
    <3>1. 0 \in 0..Len(stable) /\ Len(stable) - 0 <= misheard /\ (0 + 1)..Len(stable) = {} /\ 1..0 = {}
      BY <2>1 DEF Init
    <3>2. QED
      BY <3>1 DEF Ordered
  <2>3. Said(0, offset) = <<>>
    <3>1. speech \in Seq(Nat) /\ 0 \in 0..Len(speech) /\ 0 \in 0..0 /\ 0 - 0 = 0
      BY <1>1, SpeechIs
    <3>2. SubSeq(speech, 0 + 1, 0) \in Seq(Nat) /\ Len(SubSeq(speech, 0 + 1, 0)) = 0 - 0
      BY <3>1, SliceIs
    <3>3. QED
      BY <2>1, <3>1, <3>2, EmptySeq DEF Said
  <2>4. QED
    BY <2>1, <2>2, <2>3 DEF Followed, Exactly
<1>8. QED
  BY <1>1, <1>2, <1>3, <1>4, <1>5, <1>6, <1>7 DEF LiveTextInv, Placed

\* The inductive invariant: where every insertion is, and what the window, the
\* clipboard, the reconciler and the result say of the words at that point.
THEOREM LiveTextInvariant == Spec => []LiveTextInv
<1>1. LiveTextInv /\ [Next]_vars => LiveTextInv'
  BY StepTypes, StepWords, StepInserting, StepPhases, StepLent, StepTyped, StepSettled, StepFollowed
     DEF LiveTextInv, Placed
<1>2. QED
  BY <1>1, InitInv, PTL DEF Spec

\* No step of the capture, the live worker, the final pass or a paste leaves
\* the types.
THEOREM LiveTextTypes == Spec => []TypeOK
<1>1. LiveTextInv => TypeOK
  BY DEF LiveTextInv, Placed
<1>2. QED
  BY <1>1, LiveTextInvariant, PTL

\* Whatever the user copies meanwhile, and whatever fails, a paste gives back the
\* clipboard it read (X11PasteBackend.insert): but for the three exceptions that
\* the invariant names.
THEOREM ClipboardComesBack == Spec => []ClipboardGivenBack
<1>1. LiveTextInv => ClipboardGivenBack
  BY DEF LiveTextInv, Lent, Users, ClipboardGivenBack
<1>2. QED
  BY <1>1, LiveTextInvariant, PTL

\* A dictation that reports an insertion has typed something and one that reports
\* a copy has copied something, in every output mode and along every fallback
\* (FinalizingTextInserter.insert, CapabilityDesktopIntegration).
THEOREM ResultsClaimNothingFalse == Spec => []ClaimsHold
<1>1. LiveTextInv => ClaimsHold
  <2> SUFFICES ASSUME LiveTextInv, Delivered PROVE ClaimsHold
    BY DEF ClaimsHold
  <2>1. text # <<>>
    BY TextIsHeard DEF Delivered, LiveTextInv
  <2>2. QED
    BY <2>1 DEF LiveTextInv, Settled, Delivered, ClaimsHold
<1>2. QED
  BY <1>1, LiveTextInvariant, PTL

\* Once live insertion is paused, the whole text is typed behind what was typed,
\* or it is copied (LiveInsertionState.remaining_final_text).
THEOREM PausedLosesNothing == Spec => []PausedTypesAll
<1>1. LiveTextInv => PausedTypesAll
  <2> SUFFICES ASSUME LiveTextInv, Delivered, paused, Reported PROVE IsSuffix(text, target) \/ copied = text
    BY DEF PausedTypesAll
  <2>1. Remaining = text
    BY DEF Remaining
  <2>2. CASE result.copied
    BY <2>1, <2>2 DEF LiveTextInv, Settled, Delivered
  <2>3. CASE result.inserted /\ mode # "clipboard"
    BY <2>3 DEF LiveTextInv, Settled, Delivered, AllTyped
  <2>4. QED
    BY <2>2, <2>3 DEF Reported
<1>2. QED
  BY <1>1, LiveTextInvariant, PTL

\* What was heard up to a word is the start of the text.
LEMMA StartOfText ==
  ASSUME Placed, source = "stopped", heard > 0, final # "transcribe", NEW n \in 0..heard
  PROVE  Said(0, n) = SubSeq(text, 1, n) /\ n \in 0..Len(text)
<1>1. /\ Len(text) = heard /\ text \in Seq(Nat) /\ \A i \in 1..heard : text[i] = speech[i]
      /\ speech \in Seq(Nat) /\ heard \in 0..Len(speech) /\ Len(speech) \in Nat /\ heard \in Nat
  BY SpeechIs, TextIsHeard DEF Placed, WordsTypeOK, TypeOK
<1>2. n \in 0..Len(speech) /\ 0 \in 0..n /\ n - 0 = n /\ n \in 0..Len(text) /\ \A i \in 1..n : 0 + i = i /\ i \in 1..heard
  BY <1>1
<1>3. /\ Said(0, n) \in Seq(Nat) /\ Len(Said(0, n)) = n
      /\ \A i \in 1..n : Said(0, n)[i] = speech[i]
  <2>1. /\ SubSeq(speech, 0 + 1, n) \in Seq(Nat) /\ Len(SubSeq(speech, 0 + 1, n)) = n - 0
        /\ \A i \in 1..(n - 0) : SubSeq(speech, 0 + 1, n)[i] = speech[0 + i]
    BY <1>1, <1>2, SliceIs
  <2>2. QED
    BY <1>2, <2>1 DEF Said
<1>4. /\ SubSeq(text, 1, n) \in Seq(Nat) /\ Len(SubSeq(text, 1, n)) = n
      /\ \A i \in 1..n : SubSeq(text, 1, n)[i] = text[i]
  BY <1>1, <1>2, UptoWithin
<1>5. \A i \in 1..n : Said(0, n)[i] = SubSeq(text, 1, n)[i]
  BY <1>1, <1>2, <1>3, <1>4
<1>6. QED
  BY <1>2, <1>3, <1>4, <1>5, SeqEqual

\* As long as a chunk repeats no more words than the reconciler compares, what
\* was typed live and what the final pass adds are the transcript: no word is
\* lost at a seam and none is typed twice (reconcile_chunk, reconcile_final).
THEOREM WordsAreExact == ASSUME Repeats <= Overlap PROVE Spec => []WordsExact
<1>1. LiveTextInv => WordsExact
  <2> SUFFICES ASSUME LiveTextInv, Delivered, Distinct, misheard = 0, ~paused, Reported
               PROVE  text \in {target, copied, target \o copied}
    BY DEF WordsExact
  <2>1. /\ Placed /\ TypeOK /\ WordsTypeOK /\ Followed /\ worker # "insert" /\ source = "stopped" /\ Settled
        /\ final = "done" /\ heard > 0
    BY DEF LiveTextInv, Placed, Phases, Delivered
  <2>2. /\ text = Upto(speech, heard) /\ Len(text) = heard /\ text \in Seq(Nat)
        /\ speech \in Seq(Nat) /\ heard \in 0..Len(speech) /\ offset \in 0..heard
    BY <2>1, SpeechIs, TextIsHeard DEF WordsTypeOK, TypeOK
  <2>3. stable = Said(0, offset)
    BY <2>1 DEF Followed, Exactly
  <2>4. stable \o ReconcileFinal(stable, text) = text
    <3>1. stable = SubSeq(text, 1, offset) /\ offset \in 0..Len(text)
      BY <2>1, <2>2, <2>3, StartOfText
    <3>2. QED
      BY <2>2, <3>1, FinalCompletes
  <2>5. Remaining = ReconcileFinal(stable, text)
    BY DEF Remaining
  <2>6. CASE result.copied
    BY <2>1, <2>4, <2>5, <2>6 DEF Settled, NoneTyped
  <2>7. CASE result.inserted /\ mode # "clipboard"
    BY <2>1, <2>4, <2>5, <2>7 DEF Settled, AllTyped
  <2>8. QED
    BY <2>6, <2>7 DEF Reported
<1>2. QED
  BY <1>1, LiveTextInvariant, PTL

\* When the final pass has delivered, all of the words it typed were said after
\* those that were typed live.
LEMMA RestIsLater ==
  ASSUME Placed, source = "stopped", heard > 0, final # "transcribe", Distinct, misheard < Overlap,
         Ordered(stable, offset, misheard), NEW rest, rest = ReconcileFinal(stable, text),
         NEW i \in 1..Len(stable), NEW m \in 1..Len(rest)
  PROVE  stable[i] # rest[m]
<1>1. /\ Len(text) = heard /\ text \in Seq(Nat) /\ stable \in Seq(Nat) /\ Len(stable) \in Nat
      /\ speech \in Seq(Nat) /\ heard \in 0..Len(speech) /\ heard \in Nat /\ offset \in 0..heard
      /\ Len(speech) \in Nat /\ Overlap \in Nat /\ misheard \in Nat
  BY SpeechIs, TextIsHeard, LenProperties, LiveTextAssumption DEF Placed, WordsTypeOK, TypeOK
<1>2. \A n \in 1..heard : n \in 1..Len(speech) /\ text[n] = speech[n] /\ text[n] \notin Noises
  <2>1. \A n \in 1..heard : text[n] = speech[n] /\ n \in 1..Len(speech)
    BY <1>1, TextIsHeard
  <2>2. QED
    BY <2>1, SpeechIs DEF Placed
<1>3. \A e \in 0..Len(text) : rest = LastOf(text, Len(text) - e) =>
                                e + m \in 1..heard /\ e < e + m /\ rest[m] = text[e + m]
  <2> SUFFICES ASSUME NEW e \in 0..Len(text), rest = LastOf(text, Len(text) - e)
               PROVE  e + m \in 1..heard /\ e < e + m /\ rest[m] = text[e + m]
    OBVIOUS
  <2>1. Len(rest) = Len(text) - e /\ \A n \in 1..(Len(text) - e) : rest[n] = text[e + n]
    BY <1>1, RestIs
  <2>2. QED
    <3>1. Len(rest) = heard - e /\ e \in 0..heard /\ heard \in Nat /\ m \in 1..(heard - e)
      BY <1>1, <2>1
    <3>2. e + m \in 1..heard /\ e < e + m
      BY <3>1
    <3>3. QED
      BY <1>1, <2>1, <3>1, <3>2
<1>4. CASE stable[i] \in Noises
  <2>1. PICK e \in 0..Len(text) : rest = LastOf(text, Len(text) - e)
    BY <1>1, FinalType
  <2>2. QED
    BY <1>2, <1>3, <1>4, <2>1
<1>5. CASE stable[i] \notin Noises
  <2>0. AllDiffer(speech)
    BY <1>1, LenProperties DEF Distinct, AllDiffer
  <2>1. PICK p \in 0..Len(stable) :
          /\ Len(stable) - p <= misheard
          /\ \A n \in (p + 1)..Len(stable) : stable[n] \in Noises
          /\ \A n \in 1..p :
               \/ stable[n] \in Noises
               \/ \E j \in 1..offset, k \in 1..offset :
                    j <= k /\ stable[n] = speech[j] /\ stable[p] = speech[k]
    BY DEF Ordered
  <2>2. i \in 1..p
    <3>1. i \notin (p + 1)..Len(stable)
      BY <1>5, <2>1
    <3>2. QED
      BY <1>1, <3>1
  <2>3. PICK a \in 1..offset, k \in 1..offset : a <= k /\ stable[i] = speech[a] /\ stable[p] = speech[k]
    BY <1>5, <2>1, <2>2
  <2>4. p \in 1..Len(stable) /\ Len(stable) - p < Overlap /\ k \in 1..Len(text) /\ k \in 1..heard /\ a \in 1..Len(speech)
    <3>1. Len(stable) - p <= misheard /\ p \in 0..Len(stable) /\ i \in 1..p
      BY <2>1, <2>2
    <3>2. QED
      <4>1. Len(stable) \in Nat /\ Len(speech) \in Nat /\ misheard \in Nat /\ Overlap \in Nat /\ misheard < Overlap
        BY <1>1
      <4>2. p \in 1..Len(stable) /\ Len(stable) - p < Overlap
        BY <3>1, <4>1
      <4>3. k \in 1..heard /\ a \in 1..Len(speech)
        BY <1>1
      <4>4. QED
        BY <1>1, <4>2, <4>3
  <2>5. stable[p] = text[k]
    BY <1>2, <2>3, <2>4
  <2>6. \A x, y \in 1..Len(text) : text[x] = text[y] => x = y
    <3>1. \A x \in 1..Len(text) : x \in 1..Len(speech) /\ text[x] = speech[x]
      BY <1>1, <1>2
    <3>2. QED
      BY <2>0, <3>1 DEF AllDiffer
  <2>7. PICK e \in k..Len(text) : rest = LastOf(text, Len(text) - e)
    BY <1>1, <2>4, <2>5, <2>6, FinalGoesOn
  <2>8. e \in 0..Len(text) /\ k <= e
    BY <1>1, <2>4
  <2>9. e + m \in 1..Len(speech) /\ e < e + m /\ rest[m] = speech[e + m]
    BY <1>2, <1>3, <2>7, <2>8
  <2>10. a # e + m
    BY <1>1, <2>3, <2>8, <2>9
  <2>11. QED
    BY <2>0, <2>3, <2>4, <2>9, <2>10 DEF AllDiffer
<1>6. QED
  BY <1>4, <1>5

\* For every speech of different words, every way to cut it into chunks and every
\* mistake of the recogniser, the final pass goes on behind the last word that
\* both texts have (reconcile_final, _matching_run).
THEOREM NothingTypedTwice == Spec => []NothingTwice
<1>1. LiveTextInv => NothingTwice
  <2> SUFFICES ASSUME LiveTextInv, Delivered, Distinct, ~paused, misheard < Overlap,
                      NEW i \in 1..Len(stable), NEW j \in (Len(stable) + 1)..Len(target)
               PROVE  target[i] # target[j]
    BY DEF NothingTwice
  <2>1. /\ Placed /\ WordsTypeOK /\ Followed /\ worker # "insert" /\ source = "stopped" /\ Settled
        /\ final = "done" /\ heard > 0
    BY DEF LiveTextInv, Placed, Phases, Delivered
  <2>2. Ordered(stable, offset, misheard)
    BY <2>1 DEF Followed
  <2>3. stable \in Seq(Nat) /\ Len(stable) \in Nat /\ Remaining \in Seq(Nat) /\ Remaining = ReconcileFinal(stable, text)
    BY <2>1, RemainingType, LenProperties DEF WordsTypeOK, Remaining
  <2>4. target # stable
    BY <2>3
  <2>5. target = stable \o Remaining
    BY <2>1, <2>4 DEF Settled, NoneTyped, AllTyped
  <2> DEFINE rest == Remaining  m == j - Len(stable)
  <2>6. /\ rest \in Seq(Nat) /\ rest = ReconcileFinal(stable, text) /\ target = stable \o rest
    BY <2>3, <2>5
  <2> HIDE DEF rest
  <2>7. /\ Len(target) = Len(stable) + Len(rest)
        /\ \A n \in 1..(Len(stable) + Len(rest)) : target[n] = IF n <= Len(stable) THEN stable[n] ELSE rest[n - Len(stable)]
    BY <2>3, <2>6, ConcatIs
  <2>8. /\ Len(rest) \in Nat /\ m \in 1..Len(rest) /\ i \in 1..(Len(stable) + Len(rest)) /\ i <= Len(stable)
        /\ j \in 1..(Len(stable) + Len(rest)) /\ ~(j <= Len(stable))
    BY <2>3, <2>6, <2>7, LenProperties
  <2>9. target[i] = stable[i] /\ target[j] = rest[m]
    BY <2>7, <2>8
  <2> HIDE DEF m
  <2>10. stable[i] # rest[m]
    BY <2>1, <2>2, <2>6, <2>8, RestIsLater
  <2>11. QED
    BY <2>9, <2>10
<1>2. QED
  BY <1>1, LiveTextInvariant, PTL
===============================================================================
