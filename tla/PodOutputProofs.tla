--------------------------- MODULE PodOutputProofs ---------------------------
(***************************************************************************)
(* Proofs about PodOutput: of its invariants, for any ring, cap on replays *)
(* and number of observers.                                                *)
(*                                                                         *)
(* The argument: the ring holds the newest units read, without gaps        *)
(* (RingSound), so that a replay is a run of them up to the last read, and *)
(* what follows live goes on from there.  A prompt leaves nothing older in *)
(* the ring (PromptSound).  Where a replay begins, the beginning of a      *)
(* string it is in is missing only if it had left the ring or is opened    *)
(* again (Whole); a stream that has shown no output yet must be fit to     *)
(* begin with the next unit.  For the screen, the offset at which the      *)
(* alternate screen was entered, if the ring still has it, is as far       *)
(* behind the newest as the unit that entered it (AltSound).               *)
(*                                                                         *)
(* The parts: sets of positions; what appending does to a stream; what a   *)
(* replay is; the steps; the theorems.                                     *)
(***************************************************************************)
EXTENDS PodOutput, WellFoundedInduction, SequenceTheorems, TLAPS

-----------------------------------------------------------------------------
(* First and last of a set of positions *)

LEMMA MinFacts ==
  ASSUME NEW S, S \subseteq Nat, S # {}
  PROVE  Min(S) \in S /\ \A y \in S : Min(S) <= y
<1>1. PICK x \in S : \A y \in S : <<y, x>> \notin OpToRel(<, Nat)
  BY WFMin, NatLessThanWellFounded
<1>2. ASSUME NEW y \in S
      PROVE  x <= y
  <2>1. x \in Nat /\ y \in Nat
    OBVIOUS
  <2>2. ~(y < x)
    BY <2>1, <1>1 DEF OpToRel
  <2>3. QED
    BY <2>1, <2>2
<1>3. QED
  BY <1>2 DEF Min

LEMMA MaxFacts ==
  ASSUME NEW n \in Nat, NEW S, S \subseteq 0 .. n, S # {}
  PROVE  Max(S) \in S /\ \A y \in S : y <= Max(S)
<1> DEFINE back == {n - x : x \in S}
<1>1. back \subseteq Nat /\ back # {}
  <2>1. ASSUME NEW b \in back
        PROVE  b \in Nat
    <3>1. PICK x \in S : b = n - x
      OBVIOUS
    <3>2. x \in 0 .. n
      OBVIOUS
    <3>3. QED
      BY <3>1, <3>2
  <2>2. QED
    BY <2>1
<1>2. Min(back) \in back /\ \A y \in back : Min(back) <= y
  <2> HIDE DEF back
  <2>1. QED
    BY <1>1, MinFacts
<1>3. PICK x \in S : Min(back) = n - x
  BY <1>2
<1>4. ASSUME NEW y \in S
      PROVE  x >= y
  <2>1. n - x <= n - y
    BY <1>2, <1>3
  <2>2. QED
    BY <2>1
<1>5. QED
  BY <1>4 DEF Max

LEMMA FirstFacts ==
  ASSUME NEW S, S \subseteq Nat
  PROVE  /\ First(S) # 0 => First(S) \in S
         /\ 0 \notin S /\ S # {} => First(S) # 0
BY MinFacts DEF First

LEMMA LastFacts ==
  ASSUME NEW n \in Nat, NEW S, S \subseteq 1 .. n
  PROVE  /\ S = {} => Last(S) = 0
         /\ S # {} => Last(S) \in S /\ \A y \in S : y <= Last(S)
<1>1. S # {} => Max(S) \in S /\ \A y \in S : y <= Max(S)
  <2>1. S \subseteq 0 .. n
    OBVIOUS
  <2>2. QED
    BY <2>1, MaxFacts
<1>2. QED
  BY <1>1 DEF Last
-----------------------------------------------------------------------------
(* Streams *)

ItemTypes == {"output", "password", "plain", "secret", "enter", "reopen", "backlog_end"}
Item == [type : ItemTypes, at : Nat]
Marks == {"open", "close"}

OutputsOf(s) == {k \in DOMAIN s : s[k].type = "output"}
HasReopen(s) == \E k \in DOMAIN s : s[k] = Frame("reopen")

\* What a stream s shows, o being what the shell has written: the kinds of its
\* items, and the screen it ends on.
KindAt(s, o, k) == IF s[k].type = "output" THEN o[s[k].at] ELSE s[k].type

Shows(s, o, v) ==
  \/ \E i \in DOMAIN s : /\ KindAt(s, o, i) = v /\ v \in Switches
                         /\ \A j \in DOMAIN s : j > i => KindAt(s, o, j) \notin Switches
  \/ v = "leave" /\ \A i \in DOMAIN s : KindAt(s, o, i) \notin Switches

\* Its outputs are units read, r of which there are.
Typed(s, r) == s \in Seq(Item) /\ \A k \in OutputsOf(s) : s[k].at \in 1 .. r

\* They come without a gap and in order, up to the last.
Gapless(s, r) ==
  /\ \A k \in OutputsOf(s) : s[k].at = r \/ \E l \in OutputsOf(s) : k < l /\ s[l].at = s[k].at + 1
  /\ \A k, l \in OutputsOf(s) : k < l => s[k].at < s[l].at

\* j is the last unit before f that begins or ends a string.
LastMark(o, f, j) ==
  /\ j \in 1 .. f - 1 /\ o[j] \in Marks
  /\ \A i \in j + 1 .. f - 1 : o[i] \notin Marks

\* A stream may begin with f: if it is in a string, the beginning of that is
\* known to be missing.
MayBegin(s, h, o, v, f) ==
  \A j \in 1 .. f - 1 : LastMark(o, f, j) /\ o[j] = "open" => j < h \/ j \in v \/ HasReopen(s)

\* What has begun, or would begin with the next unit, may do so.
Whole(s, h, o, v, r) ==
  /\ \A k \in OutputsOf(s) :
       (\A l \in OutputsOf(s) : k <= l) => MayBegin(s, h, o, v, s[k].at)
  /\ OutputsOf(s) = {} => MayBegin(s, h, o, v, r + 1)

Discreet(s, v) ==
  \A k \in DOMAIN s : s[k] # Frame("secret") /\ \A i \in v : s[k] # Output(i)

\* Every stream begins empty.
LEMMA NothingSent ==
  ASSUME NEW r \in Nat
  PROVE  Typed(<<>>, r) /\ Gapless(<<>>, r)
BY DEF Typed, Gapless, OutputsOf

LEMMA AppendFacts ==
  ASSUME NEW s \in Seq(Item), NEW x \in Seq(Item)
  PROVE  LET t == s \o x
         IN /\ t \in Seq(Item) /\ DOMAIN t = 1 .. Len(s) + Len(x)
            /\ Len(s) \in Nat /\ Len(x) \in Nat
            /\ DOMAIN s = 1 .. Len(s) /\ DOMAIN x = 1 .. Len(x)
            /\ \A k \in 1 .. Len(s) : t[k] = s[k]
            /\ \A k \in 1 .. Len(x) : t[Len(s) + k] = x[k]
            /\ \A k \in DOMAIN t : k \notin 1 .. Len(s) =>
                 k - Len(s) \in 1 .. Len(x) /\ t[k] = x[k - Len(s)]
BY ConcatProperties, LenProperties

\* Frames that are no output.
Silent(x) == x \in Seq(Item) /\ OutputsOf(x) = {}

LEMMA SilentFacts ==
  ASSUME NEW s \in Seq(Item), NEW x, Silent(x)
  PROVE  /\ s \o x \in Seq(Item)
         /\ OutputsOf(s \o x) = OutputsOf(s)
         /\ \A k \in OutputsOf(s) : (s \o x)[k] = s[k]
         /\ HasReopen(s) => HasReopen(s \o x)
<1> DEFINE t == s \o x
<1>1. /\ t \in Seq(Item) /\ DOMAIN t = 1 .. Len(s) + Len(x)
      /\ Len(s) \in Nat /\ Len(x) \in Nat
      /\ DOMAIN s = 1 .. Len(s) /\ DOMAIN x = 1 .. Len(x)
      /\ \A k \in 1 .. Len(s) : t[k] = s[k]
      /\ \A k \in DOMAIN t : k \notin 1 .. Len(s) =>
           k - Len(s) \in 1 .. Len(x) /\ t[k] = x[k - Len(s)]
  BY AppendFacts DEF Silent
<1> HIDE DEF t
<1>2. \A k \in 1 .. Len(x) : x[k].type # "output"
  BY <1>1 DEF Silent, OutputsOf
<1>3. OutputsOf(t) = OutputsOf(s)
  BY <1>1, <1>2 DEF OutputsOf
<1>4. HasReopen(s) => HasReopen(t)
  BY <1>1 DEF HasReopen
<1>5. QED
  BY <1>1, <1>3, <1>4 DEF t, OutputsOf

LEMMA SilentKeeps ==
  ASSUME NEW s, NEW x, Silent(x), NEW r \in Nat, Typed(s, r), NEW h, NEW o, NEW v
  PROVE  /\ Typed(s \o x, r)
         /\ Gapless(s, r) => Gapless(s \o x, r)
         /\ Whole(s, h, o, v, r) => Whole(s \o x, h, o, v, r)
<1> DEFINE t == s \o x
<1>1. /\ t \in Seq(Item) /\ OutputsOf(t) = OutputsOf(s)
      /\ \A k \in OutputsOf(s) : t[k] = s[k]
      /\ HasReopen(s) => HasReopen(t)
  BY SilentFacts DEF Typed
<1> HIDE DEF t
<1>2. Typed(t, r) /\ (Gapless(s, r) => Gapless(t, r))
  BY <1>1 DEF Typed, Gapless
<1>3. \A f : MayBegin(s, h, o, v, f) => MayBegin(t, h, o, v, f)
  BY <1>1 DEF MayBegin
<1>4. Whole(s, h, o, v, r) => Whole(t, h, o, v, r)
  BY <1>1, <1>3 DEF Whole
<1>5. QED
  BY <1>2, <1>4 DEF t

\* The next unit.
LEMMA OneMoreFacts ==
  ASSUME NEW s \in Seq(Item), NEW i \in Nat
  PROVE  LET t == s \o <<Output(i)>>
             n == Len(s) + 1
         IN /\ t \in Seq(Item) /\ DOMAIN t = 1 .. n /\ DOMAIN s = 1 .. Len(s) /\ Len(s) \in Nat
            /\ \A k \in 1 .. Len(s) : t[k] = s[k]
            /\ t[n] = Output(i)
            /\ OutputsOf(t) = OutputsOf(s) \union {n}
            /\ HasReopen(s) => HasReopen(t)
<1> DEFINE x == <<Output(i)>>
           t == s \o x
           n == Len(s) + 1
<1>1. x \in Seq(Item) /\ Len(x) = 1 /\ x[1] = Output(i)
  BY DEF Output, Item, ItemTypes
<1> HIDE DEF x
<1>2. /\ t \in Seq(Item) /\ DOMAIN t = 1 .. Len(s) + Len(x)
      /\ Len(s) \in Nat
      /\ DOMAIN s = 1 .. Len(s)
      /\ \A k \in 1 .. Len(s) : t[k] = s[k]
      /\ \A k \in 1 .. Len(x) : t[Len(s) + k] = x[k]
  BY <1>1, AppendFacts
<1> HIDE DEF t
<1>3. DOMAIN t = 1 .. n /\ t[n] = Output(i)
  BY <1>1, <1>2
<1>4. OutputsOf(t) = OutputsOf(s) \union {n}
  BY <1>2, <1>3 DEF OutputsOf, Output
<1>5. HasReopen(s) => HasReopen(t)
  BY <1>2, <1>3 DEF HasReopen
<1>6. QED
  BY <1>2, <1>3, <1>4, <1>5 DEF t, x

LEMMA OneMoreKeeps ==
  ASSUME NEW s, NEW r \in Nat, Typed(s, r), NEW h, NEW o, NEW v
  PROVE  LET t == s \o <<Output(r + 1)>>
         IN /\ Typed(t, r + 1)
            /\ Gapless(s, r) => Gapless(t, r + 1)
            /\ Whole(s, h, o, v, r) => Whole(t, h, o, v, r + 1)
            /\ OutputsOf(t) # {}
<1> DEFINE t == s \o <<Output(r + 1)>>
           n == Len(s) + 1
<1>1. /\ t \in Seq(Item) /\ DOMAIN t = 1 .. n /\ DOMAIN s = 1 .. Len(s) /\ Len(s) \in Nat
      /\ \A k \in 1 .. Len(s) : t[k] = s[k]
      /\ t[n] = Output(r + 1)
      /\ OutputsOf(t) = OutputsOf(s) \union {n}
      /\ HasReopen(s) => HasReopen(t)
  BY OneMoreFacts DEF Typed
<1>2. /\ t[n].at = r + 1 /\ OutputsOf(s) \subseteq 1 .. Len(s) /\ n \in Nat
      /\ \A k \in OutputsOf(s) : k < n /\ t[k] = s[k] /\ s[k].at \in 1 .. r
  BY <1>1 DEF OutputsOf, Output, Typed
<1> HIDE DEF t, n
<1>3. Typed(t, r + 1)
  <2>1. ASSUME NEW k \in OutputsOf(t)
        PROVE  t[k].at \in 1 .. r + 1
    BY <1>1, <1>2
  <2>2. QED
    BY <1>1, <2>1 DEF Typed
<1>4. ASSUME Gapless(s, r)
      PROVE  Gapless(t, r + 1)
  <2>1. ASSUME NEW k \in OutputsOf(t)
        PROVE  t[k].at = r + 1 \/ \E l \in OutputsOf(t) : k < l /\ t[l].at = t[k].at + 1
    <3>1. CASE k = n
      BY <3>1, <1>2
    <3>2. CASE k \in OutputsOf(s) /\ s[k].at = r
      BY <3>2, <1>1, <1>2
    <3>3. CASE k \in OutputsOf(s) /\ s[k].at # r
      <4>1. PICK l \in OutputsOf(s) : k < l /\ s[l].at = s[k].at + 1
        BY <3>3, <1>4 DEF Gapless
      <4>2. QED
        BY <3>3, <4>1, <1>1, <1>2
    <3>4. QED
      BY <3>1, <3>2, <3>3, <1>1
  <2>2. ASSUME NEW k \in OutputsOf(t), NEW l \in OutputsOf(t), k < l
        PROVE  t[k].at < t[l].at
    <3>1. k \in OutputsOf(s)
      BY <2>2, <1>1, <1>2
    <3>2. CASE l = n
      BY <3>1, <3>2, <1>2
    <3>3. CASE l \in OutputsOf(s)
      BY <3>1, <3>3, <2>2, <1>2, <1>4 DEF Gapless
    <3>4. QED
      BY <3>2, <3>3, <1>1
  <2>3. QED
    BY <2>1, <2>2 DEF Gapless
<1>5. ASSUME Whole(s, h, o, v, r)
      PROVE  Whole(t, h, o, v, r + 1)
  <2>1. \A f : MayBegin(s, h, o, v, f) => MayBegin(t, h, o, v, f)
    BY <1>1 DEF MayBegin
  <2>2. ASSUME NEW k \in OutputsOf(t), \A l \in OutputsOf(t) : k <= l
        PROVE  MayBegin(t, h, o, v, t[k].at)
    <3>1. CASE OutputsOf(s) = {}
      BY <3>1, <2>1, <1>1, <1>2, <1>5 DEF Whole
    <3>2. CASE OutputsOf(s) # {}
      <4>1. PICK l \in OutputsOf(s) : TRUE
        BY <3>2
      <4>2. k <= l /\ l < n
        BY <4>1, <2>2, <1>1, <1>2
      <4>3. k \in OutputsOf(s)
        BY <4>2, <1>1, <1>2
      <4>4. \A x \in OutputsOf(s) : k <= x
        BY <2>2, <1>1
      <4>5. QED
        BY <4>3, <4>4, <2>1, <1>2, <1>5 DEF Whole
    <3>3. QED
      BY <3>1, <3>2
  <2>3. QED
    BY <2>2, <1>1 DEF Whole
<1>6. QED
  BY <1>1, <1>3, <1>4, <1>5 DEF t

\* A unit that is kept from an observer.
LEMMA VeiledKeeps ==
  ASSUME NEW s, NEW h, NEW o, NEW v, NEW r \in Nat, Typed(s, r), Whole(s, h, o, v, r)
  PROVE  Typed(s, r + 1) /\ Whole(s, h, o, v \union {r + 1}, r + 1)
<1> DEFINE w == v \union {r + 1}
<1>1. \A f : MayBegin(s, h, o, v, f) => MayBegin(s, h, o, w, f)
  BY DEF MayBegin
<1>2. ASSUME MayBegin(s, h, o, v, r + 1)
      PROVE  MayBegin(s, h, o, w, (r + 1) + 1)
  <2>1. SUFFICES ASSUME NEW j \in 1 .. (r + 1) + 1 - 1, LastMark(o, (r + 1) + 1, j), o[j] = "open"
                 PROVE  j < h \/ j \in w \/ HasReopen(s)
    BY DEF MayBegin
  <2>2. CASE j = r + 1
    BY <2>2
  <2>3. CASE j # r + 1
    <3>1. j \in 1 .. r + 1 - 1 /\ LastMark(o, r + 1, j)
      BY <2>1, <2>3 DEF LastMark
    <3>2. QED
      BY <3>1, <2>1, <1>2 DEF MayBegin
  <2>4. QED
    BY <2>2, <2>3
<1> HIDE DEF w
<1>3. Whole(s, h, o, w, r + 1)
  BY <1>1, <1>2 DEF Whole
<1>4. Typed(s, r + 1)
  BY DEF Typed
<1>5. QED
  BY <1>3, <1>4 DEF w

\* The shell writes on.
LEMMA GrowthKeeps ==
  ASSUME NEW o \in Seq(Kinds), NEW kind \in Kinds, NEW r \in 0 .. Len(o),
         NEW s, Typed(s, r), NEW h, NEW v
  PROVE  /\ Whole(s, h, o, v, r) => Whole(s, h, Append(o, kind), v, r)
         /\ \A w : Shows(s, o, w) => Shows(s, Append(o, kind), w)
<1> DEFINE p == Append(o, kind)
<1>1. Len(o) \in Nat /\ \A i \in 1 .. Len(o) : p[i] = o[i]
  BY AppendProperties, LenProperties
<1> HIDE DEF p
<1>2. ASSUME NEW f \in 1 .. r + 1
      PROVE  MayBegin(s, h, o, v, f) => MayBegin(s, h, p, v, f)
  <2>1. \A i \in 1 .. f - 1 : p[i] = o[i]
    BY <1>1
  <2>2. \A j \in 1 .. f - 1 : LastMark(p, f, j) => LastMark(o, f, j)
    BY <2>1 DEF LastMark
  <2>3. QED
    BY <2>1, <2>2 DEF MayBegin
<1>3. \A k \in OutputsOf(s) : s[k].at \in 1 .. r + 1 /\ s[k].at \in 1 .. Len(o)
  BY <1>1 DEF Typed
<1>4. Whole(s, h, o, v, r) => Whole(s, h, p, v, r)
  BY <1>2, <1>3 DEF Whole
<1>5. \A k \in DOMAIN s : KindAt(s, p, k) = KindAt(s, o, k)
  BY <1>1, <1>3 DEF KindAt, OutputsOf
<1>6. \A w : Shows(s, o, w) => Shows(s, p, w)
  BY <1>5 DEF Shows
<1>7. QED
  BY <1>4, <1>6 DEF p

\* What it takes to stay discreet.
LEMMA DiscreetKeeps ==
  ASSUME NEW s \in Seq(Item), NEW x \in Seq(Item), NEW v, Discreet(s, v), Discreet(x, v)
  PROVE  Discreet(s \o x, v)
<1> DEFINE t == s \o x
<1>1. /\ DOMAIN s = 1 .. Len(s) /\ DOMAIN x = 1 .. Len(x)
      /\ \A k \in 1 .. Len(s) : t[k] = s[k]
      /\ \A k \in DOMAIN t : k \notin 1 .. Len(s) =>
           k - Len(s) \in 1 .. Len(x) /\ t[k] = x[k - Len(s)]
  BY AppendFacts
<1> HIDE DEF t
<1>2. ASSUME NEW k \in DOMAIN t
      PROVE  t[k] # Frame("secret") /\ \A i \in v : t[k] # Output(i)
  <2>1. CASE k \in 1 .. Len(s)
    BY <2>1, <1>1 DEF Discreet
  <2>2. CASE k \notin 1 .. Len(s)
    BY <2>2, <1>1 DEF Discreet
  <2>3. QED
    BY <2>1, <2>2
<1>3. QED
  BY <1>2 DEF t, Discreet

\* Frames that say nothing of the screen.
LEMMA PlainShows ==
  ASSUME NEW s \in Seq(Item), NEW x, Silent(x), NEW o, NEW w, Shows(s, o, w),
         \A k \in DOMAIN x : x[k].type \notin Switches
  PROVE  Shows(s \o x, o, w)
<1> DEFINE t == s \o x
<1>1. /\ DOMAIN t = 1 .. Len(s) + Len(x)
      /\ Len(s) \in Nat /\ Len(x) \in Nat
      /\ DOMAIN s = 1 .. Len(s) /\ DOMAIN x = 1 .. Len(x)
      /\ \A k \in 1 .. Len(s) : t[k] = s[k]
      /\ \A k \in DOMAIN t : k \notin 1 .. Len(s) =>
           k - Len(s) \in 1 .. Len(x) /\ t[k] = x[k - Len(s)]
  BY AppendFacts DEF Silent
<1> HIDE DEF t
<1>2. \A k \in 1 .. Len(s) : k \in DOMAIN t /\ KindAt(t, o, k) = KindAt(s, o, k)
  BY <1>1 DEF KindAt
<1>3. ASSUME NEW k \in DOMAIN t, k \notin 1 .. Len(s)
      PROVE  KindAt(t, o, k) \notin Switches
  <2>1. k - Len(s) \in DOMAIN x /\ t[k] = x[k - Len(s)]
    BY <1>1, <1>3
  <2>2. x[k - Len(s)].type # "output"
    BY <2>1 DEF Silent, OutputsOf
  <2>3. QED
    BY <2>1, <2>2 DEF KindAt
<1>4. Shows(t, o, w)
  BY <1>1, <1>2, <1>3 DEF Shows
<1>5. QED
  BY <1>4 DEF t

LEMMA OneMoreShows ==
  ASSUME NEW s \in Seq(Item), NEW i \in Nat, NEW o, NEW w, Shows(s, o, w)
  PROVE  Shows(s \o <<Output(i)>>, o, IF o[i] \in Switches THEN o[i] ELSE w)
<1> DEFINE t == s \o <<Output(i)>>
           n == Len(s) + 1
<1>1. /\ DOMAIN t = 1 .. n /\ DOMAIN s = 1 .. Len(s) /\ Len(s) \in Nat
      /\ \A k \in 1 .. Len(s) : t[k] = s[k]
      /\ t[n] = Output(i)
  BY OneMoreFacts
<1> HIDE DEF t
<1>2. \A k \in 1 .. Len(s) : k \in DOMAIN t /\ KindAt(t, o, k) = KindAt(s, o, k)
  BY <1>1 DEF KindAt
<1>3. KindAt(t, o, n) = o[i]
  BY <1>1 DEF KindAt, Output
<1>4. CASE o[i] \in Switches
  <2>1. n \in DOMAIN t /\ \A j \in DOMAIN t : ~(j > n)
    BY <1>1
  <2>2. QED
    BY <2>1, <1>3, <1>4 DEF Shows, t
<1>5. CASE o[i] \notin Switches
  <2>1. \A k \in DOMAIN t : k \notin DOMAIN s => k = n
    BY <1>1
  <2>2. Shows(t, o, w)
    BY <2>1, <1>1, <1>2, <1>3, <1>5 DEF Shows
  <2>3. QED
    BY <2>2, <1>5 DEF t
<1>6. QED
  BY <1>4, <1>5
-----------------------------------------------------------------------------
(* The inductive invariant *)

Base == read - Len(ring)

Types ==
  /\ out \in Seq(Kinds) /\ hidden \in BOOLEAN /\ flips \in Nat /\ shell \in BOOLEAN
  /\ read \in 0 .. Len(out) /\ ring \in Seq(Nat) /\ backlogAbs \in Nat
  /\ alt \in [in : BOOLEAN, enter : Nat \union {None}]
  /\ passwordMode \in BOOLEAN /\ sealed \in Nat /\ veiled \subseteq Nat
  /\ watching \subseteq Conns
  /\ stream \in [Conns -> Seq(Item)] /\ head \in [Conns -> Nat]
  /\ attached \in BOOLEAN /\ phase \in {"run", "flush", "linger", "end"}

RingSound ==
  /\ Len(ring) <= RingCap /\ Len(ring) <= backlogAbs /\ Len(ring) <= read
  /\ \A k \in 1 .. Len(ring) : ring[k] = Base + k

PromptSound ==
  /\ passwordMode => ring = <<>> /\ sealed = read
  /\ sealed <= Base
  /\ veiled \subseteq 1 .. sealed

StringsSound ==
  \A f \in 1 .. Len(out) : \A j \in 1 .. f - 1 :
    LastMark(out, f, j) /\ out[j] = "open" => out[f] \in {"text", "close"}

StreamSound(c) ==
  /\ Typed(stream[c], read)
  /\ c = Viewer => Gapless(stream[c], read)
  /\ c # Viewer => Discreet(stream[c], veiled)
  /\ Whole(stream[c], head[c], out, veiled, read)

ViewerFed ==
  Viewer \in watching /\ ring # <<>> /\ out[read] \notin {"line", "close"} =>
    OutputsOf(stream[Viewer]) # {}

EndSound ==
  /\ phase # "run" => ~shell
  /\ phase \in {"linger", "end"} => read = Len(out)

StreamsSound ==
  /\ \A c \in watching : StreamSound(c)
  /\ \A c \in Conns \ watching : stream[c] = <<>>

IInv ==
  Types /\ RingSound /\ PromptSound /\ StringsSound /\ EndSound /\ ViewerFed /\ StreamsSound

Screen == IF alt.in THEN "enter" ELSE "leave"

\* The tracker knows the screen, and where in the ring it was entered.
AltSound ==
  /\ alt.in => \E e \in 1 .. read :
                 /\ out[e] = "enter" /\ \A j \in e + 1 .. read : out[j] \notin Switches
                 /\ alt.enter \in Nat /\ alt.enter < backlogAbs
                 /\ IF alt.enter >= RingStart THEN read - e = backlogAbs - alt.enter - 1
                                              ELSE e <= Base
  /\ ~alt.in => \/ \A j \in 1 .. read : out[j] \notin Switches
                \/ \E e \in 1 .. read :
                     out[e] = "leave" /\ \A j \in e + 1 .. read : out[j] \notin Switches

QuietPrompt ==
  passwordMode \/ hidden => \A i \in read + 1 .. Len(out) : out[i] \notin Switches

ShowsScreen == \A c \in watching : Shows(stream[c], out, Screen)

ScreenInv == AltSound /\ QuietPrompt /\ ShowsScreen
-----------------------------------------------------------------------------
(* What a replay is *)

LEMMA RingFacts ==
  ASSUME Types, RingSound, PromptSound
  PROVE  /\ Replayable = ring /\ RingHead = Base + 1
         /\ Len(ring) \in Nat /\ Base \in Nat /\ read \in Nat /\ read = Base + Len(ring)
         /\ ring # <<>> <=> Len(ring) # 0
         /\ RingStart \in Nat
         /\ \A k \in 1 .. Len(ring) : ring[k] = Base + k
<1>1. Len(ring) \in Nat /\ read \in Nat /\ backlogAbs \in Nat /\ Len(out) \in Nat
  BY LenProperties DEF Types
<1>2. ring # <<>> <=> Len(ring) # 0
  BY <1>1, EmptySeq DEF Types
<1>3. Len(ring) <= read /\ Len(ring) <= backlogAbs
      /\ \A k \in 1 .. Len(ring) : ring[k] = Base + k
  BY DEF RingSound
<1>4. Replayable = ring
  BY DEF Replayable, PromptSound
<1>5. RingHead = Base + 1
  BY <1>1, <1>2, <1>3, <1>4 DEF RingHead, Base
<1>6. QED
  BY <1>1, <1>2, <1>3, <1>4, <1>5 DEF Base, RingStart

LEMMA SkipFacts ==
  ASSUME Types, RingSound, PromptSound
  PROVE  /\ ReplaySkip \in 0 .. Len(ring)
         /\ ring # <<>> => ReplaySkip < Len(ring)
<1> DEFINE n == Len(ring)
<1>1. /\ Replayable = ring /\ n \in Nat /\ RingStart \in Nat /\ (ring # <<>> <=> n # 0)
      /\ TailCap \in Nat \ {0}
  BY RingFacts, OutputAssumption
<1>2. CapSkip \in 0 .. n /\ (n # 0 => CapSkip < n)
  BY <1>1 DEF CapSkip
<1>3. alt.enter # None => alt.enter \in Nat
  BY DEF Types
<1>4. QED
  BY <1>1, <1>2, <1>3 DEF ReplaySkip

\* Where the replay is cut, and where the line it cuts ends.
Cut == AlignedToLine(ReplaySkip)

LEMMA CutFacts ==
  ASSUME Types, RingSound, PromptSound
  PROVE  /\ Cut \in 0 .. Len(ring)
         /\ ring # <<>> => Cut < Len(ring) \/ out[ring[Cut]] = "line"
<1> DEFINE skip == ReplaySkip
           lines == {i \in skip + 1 .. skip + AlignScan :
                       i <= Len(Replayable) /\ out[Replayable[i]] = "line"}
<1>1. Replayable = ring /\ Len(ring) \in Nat /\ AlignScan \in Nat
  BY RingFacts, OutputAssumption
<1>2. skip \in 0 .. Len(ring) /\ (ring # <<>> => skip < Len(ring))
  BY SkipFacts
<1>3. Cut = IF skip \in 1 .. Len(Replayable) - 1 /\ First(lines) # 0 THEN First(lines) ELSE skip
  BY DEF Cut, AlignedToLine
<1>4. lines \subseteq Nat /\ \A i \in lines : i \in 0 .. Len(ring) /\ out[ring[i]] = "line"
  BY <1>1, <1>2
<1>5. First(lines) # 0 => First(lines) \in lines
  <2> HIDE DEF lines
  <2>1. QED
    BY <1>4, FirstFacts
<1> HIDE DEF lines, skip
<1>6. QED
  BY <1>1, <1>2, <1>3, <1>4, <1>5

\* A string that is open where the replay is cut is noticed.
LEMMA CutStringFacts ==
  ASSUME Types, RingSound, PromptSound, NEW skip \in 1 .. Len(ring) - 1,
         NEW k \in 1 .. skip, out[ring[k]] = "open",
         \A i \in k + 1 .. skip : out[ring[i]] \notin Marks
  PROVE  CutString(skip)
<1> DEFINE marks == {i \in 1 .. skip : out[Replayable[i]] \in {"open", "close"}}
<1>1. Replayable = ring /\ Len(ring) \in Nat
  BY RingFacts
<1>2. k \in marks /\ marks \subseteq 1 .. skip /\ skip \in Nat
  BY <1>1
<1>3. \A i \in marks : i <= k
  BY <1>1 DEF Marks
<1>4. Last(marks) \in marks /\ \A i \in marks : i <= Last(marks)
  <2> HIDE DEF marks
  <2>1. QED
    BY <1>2, LastFacts
<1>5. Last(marks) = k /\ k # 0
  <2>1. Last(marks) \in 1 .. skip /\ Last(marks) <= k /\ k <= Last(marks)
    BY <1>2, <1>3, <1>4
  <2>2. QED
    BY <2>1
<1> HIDE DEF marks
<1>6. QED
  BY <1>1, <1>5 DEF CutString, marks

LEMMA TerminatorFacts ==
  ASSUME Types, RingSound, PromptSound, NEW skip \in 0 .. Len(ring), Terminator(skip) # 0
  PROVE  /\ Terminator(skip) \in skip + 1 .. Len(ring)
         /\ out[ring[Terminator(skip)]] = "close"
<1> DEFINE ends == {i \in skip + 1 .. Len(Replayable) : out[Replayable[i]] = "close"}
<1>1. Replayable = ring /\ Len(ring) \in Nat
  BY RingFacts
<1>2. ends \subseteq Nat /\ ends \subseteq skip + 1 .. Len(ring)
      /\ \A i \in ends : out[ring[i]] = "close"
  BY <1>1
<1>3. First(ends) # 0 => First(ends) \in ends
  <2> HIDE DEF ends
  <2>1. QED
    BY <1>2, FirstFacts
<1>4. Terminator(skip) = First(ends)
  BY DEF Terminator
<1> HIDE DEF ends
<1>5. QED
  BY <1>2, <1>3, <1>4

\* The units of the ring a replay begins behind: those up to the cut, or up to
\* the end of the string that was cut.
Skip == OutOfString(Cut)

LEMMA SkippedFacts ==
  ASSUME Types, RingSound, PromptSound
  PROVE  /\ Cut \in 0 .. Len(ring) /\ Skip \in 0 .. Len(ring)
         /\ \/ Skip = Cut /\ ~(CutString(Cut) /\ Terminator(Cut) # 0)
            \/ Skip \in 1 .. Len(ring) /\ out[ring[Skip]] = "close"
<1>1. Cut \in 0 .. Len(ring) /\ Len(ring) \in Nat
  BY CutFacts, RingFacts
<1>2. Terminator(Cut) # 0 => /\ Terminator(Cut) \in Cut + 1 .. Len(ring)
                             /\ out[ring[Terminator(Cut)]] = "close"
  BY <1>1, TerminatorFacts
<1>3. QED
  BY <1>1, <1>2 DEF Skip, OutOfString

LEMMA SeqOfFunction ==
  ASSUME NEW n \in Nat, NEW S, NEW f \in [1 .. n -> S]
  PROVE  f \in Seq(S) /\ Len(f) = n
<1>1. f \in Seq(S)
  BY SeqDef
<1>2. QED
  BY <1>1, LenProperties

\* A replay is made of frames, up to two, the units of the ring and an end.
ReplayIs(s, n, m) ==
  /\ s \in Seq(Item) /\ n \in Nat /\ m = Len(ring) - Skip /\ m \in Nat
  /\ DOMAIN s = 1 .. n + m + 1
  /\ \A k \in 1 .. n : s[k] \in {Frame("enter"), Frame("reopen")}
  /\ \A k \in n + 1 .. n + m : s[k] = Output(Base + Skip + (k - n))
  /\ s[n + m + 1] = Frame("backlog_end")
  /\ NeedsAltEnter(Skip) => /\ n >= 1 /\ s[1] = Frame("enter")
                            /\ \A k \in 2 .. n : s[k] = Frame("reopen")
  /\ ~NeedsAltEnter(Skip) => \A k \in 1 .. n : s[k] = Frame("reopen")
  /\ CutString(Cut) /\ Terminator(Cut) = 0 => HasReopen(s)

LEMMA ReplayShape ==
  ASSUME Types, RingSound, PromptSound
  PROVE  \E n, m : ReplayIs(Replay, n, m)
<1> DEFINE m == Len(ring) - Skip
           en == IF NeedsAltEnter(Skip) THEN <<Frame("enter")>> ELSE <<>>
           re == Reopened(Cut)
           body == [i \in 1 .. m |-> Output(ring[Skip + i])]
           end == <<Frame("backlog_end")>>
           pre == en \o re
           x == pre \o body
           n == Len(pre)
<1>1. /\ Replayable = ring /\ Len(ring) \in Nat /\ Skip \in 0 .. Len(ring) /\ Base \in Nat
      /\ \A k \in 1 .. Len(ring) : ring[k] = Base + k
  BY RingFacts, SkippedFacts
<1>2. m \in Nat
  BY <1>1
<1>3. Replay = x \o end
  BY <1>1 DEF Replay, Cut, Skip
<1>4. /\ en \in Seq(Item) /\ re \in Seq(Item) /\ end \in Seq(Item) /\ Len(end) = 1
      /\ end[1] = Frame("backlog_end")
  <2>1. \A type \in ItemTypes : Frame(type) \in Item
    BY DEF Frame, Item
  <2>2. /\ Frame("enter") \in Item /\ Frame("reopen") \in Item
        /\ Frame("backlog_end") \in Item
    BY <2>1 DEF ItemTypes
  <2>3. en \in Seq(Item)
    BY <2>2
  <2>4. re \in Seq(Item)
    BY <2>2 DEF Reopened
  <2>5. QED
    BY <2>2, <2>3, <2>4
<1>5. /\ NeedsAltEnter(Skip) => Len(en) = 1 /\ en[1] = Frame("enter")
      /\ ~NeedsAltEnter(Skip) => Len(en) = 0
  OBVIOUS
<1>6. /\ Len(re) \in {0, 1}
      /\ Len(re) = 1 => re[1] = Frame("reopen")
      /\ CutString(Cut) /\ Terminator(Cut) = 0 => Len(re) = 1
  BY DEF Reopened
<1>7. body \in Seq(Item) /\ Len(body) = m
      /\ \A i \in 1 .. m : body[i] = Output(Base + Skip + i)
  <2>1. \A i \in 1 .. m : Skip + i \in 1 .. Len(ring)
    BY <1>1
  <2>2. \A i \in 1 .. m : body[i] = Output(Base + Skip + i) /\ Base + Skip + i \in Nat
    BY <1>1, <2>1
  <2>3. \A i \in Nat : Output(i) \in Item
    BY DEF Output, Item, ItemTypes
  <2>4. body \in [1 .. m -> Item]
    BY <2>2, <2>3
  <2> HIDE DEF m, body
  <2>5. QED
    BY <1>2, <2>2, <2>4, SeqOfFunction
<1> HIDE DEF m, en, re, body, end
<1>8. /\ pre \in Seq(Item) /\ n = Len(en) + Len(re) /\ n \in Nat
      /\ \A k \in 1 .. n : pre[k] = IF k <= Len(en) THEN en[k] ELSE re[k - Len(en)]
  BY <1>4, ConcatProperties, LenProperties
<1>9. /\ \A k \in 1 .. n : pre[k] \in {Frame("enter"), Frame("reopen")}
      /\ NeedsAltEnter(Skip) => /\ n >= 1 /\ pre[1] = Frame("enter")
                                /\ \A k \in 2 .. n : pre[k] = Frame("reopen")
      /\ ~NeedsAltEnter(Skip) => \A k \in 1 .. n : pre[k] = Frame("reopen")
      /\ CutString(Cut) /\ Terminator(Cut) = 0 => n >= 1 /\ pre[n] = Frame("reopen")
  BY <1>5, <1>6, <1>8
<1> HIDE DEF n, pre
<1>10. /\ x \in Seq(Item) /\ Len(x) = n + m
       /\ \A k \in 1 .. n : x[k] = pre[k]
       /\ \A k \in n + 1 .. n + m : x[k] = body[k - n]
  BY <1>2, <1>7, <1>8, ConcatProperties DEF n
<1> HIDE DEF x
<1>11. /\ Replay \in Seq(Item) /\ Len(Replay) = n + m + 1
       /\ \A k \in 1 .. n + m : Replay[k] = x[k]
       /\ Replay[n + m + 1] = end[1]
  <2>1. /\ x \o end \in Seq(Item) /\ Len(x \o end) = Len(x) + Len(end)
        /\ \A i \in 1 .. Len(x) + Len(end) :
             (x \o end)[i] = IF i <= Len(x) THEN x[i] ELSE end[i - Len(x)]
    BY <1>4, <1>10, ConcatProperties
  <2>2. n \in Nat /\ m \in Nat /\ Len(x) = n + m /\ Len(end) = 1
    BY <1>2, <1>4, <1>8, <1>10
  <2>3. (n + m + 1) - Len(x) = 1 /\ ~(n + m + 1 <= Len(x))
        /\ n + m + 1 \in 1 .. Len(x) + Len(end)
    BY <2>2
  <2>4. QED
    BY <2>1, <2>2, <2>3, <1>3
<1>12. DOMAIN Replay = 1 .. n + m + 1
  BY <1>11, LenProperties
<1>13. \A k \in 1 .. n : Replay[k] = pre[k]
  BY <1>2, <1>8, <1>10, <1>11
<1>14. \A k \in n + 1 .. n + m : Replay[k] = Output(Base + Skip + (k - n))
  BY <1>2, <1>7, <1>8, <1>10, <1>11
<1>15. CutString(Cut) /\ Terminator(Cut) = 0 => HasReopen(Replay)
  BY <1>2, <1>8, <1>9, <1>12, <1>13 DEF HasReopen
<1>16. ReplayIs(Replay, n, m)
  <2>1. \A k \in 1 .. n : Replay[k] \in {Frame("enter"), Frame("reopen")}
    BY <1>9, <1>13
  <2>2. NeedsAltEnter(Skip) => /\ n >= 1 /\ Replay[1] = Frame("enter")
                               /\ \A k \in 2 .. n : Replay[k] = Frame("reopen")
    BY <1>8, <1>9, <1>13
  <2>3. ~NeedsAltEnter(Skip) => \A k \in 1 .. n : Replay[k] = Frame("reopen")
    BY <1>9, <1>13
  <2>4. n \in Nat /\ m \in Nat /\ m = Len(ring) - Skip /\ Replay \in Seq(Item)
    BY <1>2, <1>8, <1>11 DEF m
  <2>5. Replay[n + m + 1] = Frame("backlog_end")
    BY <1>4, <1>11
  <2>6. QED
    BY <2>1, <2>2, <2>3, <2>4, <2>5, <1>12, <1>14, <1>15 DEF ReplayIs
<1>17. QED
  BY <1>16

\* The outputs of a stream s: items n + 1 to n + m, the units behind b.
OutputsAre(s, n, m, b) ==
  /\ n \in Nat /\ m \in Nat /\ b \in Nat
  /\ OutputsOf(s) = n + 1 .. n + m
  /\ \A k \in n + 1 .. n + m : s[k] = Output(b + (k - n))

LEMMA FieldsOfOutput ==
  \A i : Output(i).type = "output" /\ Output(i).at = i
BY DEF Output

LEMMA SpanFacts ==
  ASSUME NEW s, NEW n, NEW m, NEW b, OutputsAre(s, n, m, b)
  PROVE  /\ \A k \in OutputsOf(s) : k \in Nat /\ s[k].at = b + (k - n) /\ s[k].at \in b + 1 .. b + m
         /\ m # 0 => n + 1 \in OutputsOf(s)
         /\ Gapless(s, b + m)
<1>1. ASSUME NEW k \in OutputsOf(s)
      PROVE  k \in Nat /\ k \in n + 1 .. n + m /\ s[k].at = b + (k - n) /\ s[k].at \in b + 1 .. b + m
  <2>1. k \in n + 1 .. n + m /\ n \in Nat /\ m \in Nat /\ b \in Nat /\ s[k] = Output(b + (k - n))
    BY DEF OutputsAre
  <2>2. s[k].at = b + (k - n)
    BY <2>1, FieldsOfOutput
  <2>3. QED
    BY <2>1, <2>2
<1>2. m # 0 => n + 1 \in OutputsOf(s)
  BY DEF OutputsAre
<1>3. ASSUME NEW k \in OutputsOf(s), s[k].at # b + m
      PROVE  \E l \in OutputsOf(s) : k < l /\ s[l].at = s[k].at + 1
  <2>1. k \in Nat /\ k \in n + 1 .. n + m /\ s[k].at = b + (k - n) /\ n \in Nat /\ m \in Nat /\ b \in Nat
    BY <1>1 DEF OutputsAre
  <2>2. k # n + m
    BY <2>1, <1>3
  <2>3. k + 1 \in n + 1 .. n + m
    BY <2>1, <2>2
  <2>4. k + 1 \in OutputsOf(s)
    BY <2>3 DEF OutputsAre
  <2>5. k < k + 1 /\ s[k + 1].at = s[k].at + 1
    BY <2>1, <2>4, <1>1
  <2>6. QED
    BY <2>4, <2>5
<1>4. \A k, l \in OutputsOf(s) : k < l => s[k].at < s[l].at
  BY <1>1 DEF OutputsAre
<1>5. Gapless(s, b + m)
  BY <1>3, <1>4 DEF Gapless
<1>6. QED
  BY <1>1, <1>2, <1>5

LEMMA ReplayOutputs ==
  ASSUME Types, RingSound, PromptSound, NEW s, NEW n, NEW m, ReplayIs(s, n, m)
  PROVE  OutputsAre(s, n, m, Base + Skip) /\ read = Base + Skip + m
<1>1. n \in Nat /\ m \in Nat /\ m = Len(ring) - Skip
  BY DEF ReplayIs
<1>2. Len(ring) \in Nat /\ Base \in Nat /\ read = Base + Len(ring)
  BY RingFacts
<1>3. Skip \in 0 .. Len(ring)
  BY SkippedFacts
<1>4. /\ DOMAIN s = 1 .. n + m + 1
      /\ \A k \in 1 .. n : s[k] \in {Frame("enter"), Frame("reopen")}
      /\ \A k \in n + 1 .. n + m : s[k] = Output(Base + Skip + (k - n))
      /\ s[n + m + 1] = Frame("backlog_end")
  BY DEF ReplayIs
<1>5. \A k \in 1 .. n : s[k].type # "output"
  BY <1>4 DEF Frame
<1>6. \A k \in n + 1 .. n + m : s[k].type = "output"
  BY <1>4, FieldsOfOutput
<1>7. s[n + m + 1].type # "output"
  BY <1>4 DEF Frame
<1>8. OutputsOf(s) = n + 1 .. n + m
  <2>1. ASSUME NEW k \in OutputsOf(s)
        PROVE  k \in n + 1 .. n + m
    <3>1. k \in 1 .. n + m + 1 /\ s[k].type = "output"
      BY <1>4 DEF OutputsOf
    <3>2. k \notin 1 .. n /\ k # n + m + 1
      BY <3>1, <1>5, <1>7
    <3>3. QED
      BY <3>1, <3>2, <1>1
  <2>2. ASSUME NEW k \in n + 1 .. n + m
        PROVE  k \in OutputsOf(s)
    <3>1. k \in 1 .. n + m + 1
      BY <1>1
    <3>2. QED
      BY <3>1, <1>4, <1>6 DEF OutputsOf
  <2>3. QED
    BY <2>1, <2>2
<1>9. Base + Skip \in Nat /\ read = Base + Skip + m
  BY <1>1, <1>2, <1>3
<1>10. OutputsAre(s, n, m, Base + Skip)
  BY <1>1, <1>4, <1>8, <1>9 DEF OutputsAre
<1>11. QED
  BY <1>9, <1>10

LEMMA ReplayTyped ==
  ASSUME Types, RingSound, PromptSound
  PROVE  Typed(Replay, read) /\ Gapless(Replay, read)
<1> DEFINE s == Replay
<1>1. PICK n, m : ReplayIs(s, n, m)
  BY ReplayShape
<1> HIDE DEF s
<1>2. OutputsAre(s, n, m, Base + Skip) /\ read = Base + Skip + m
  BY <1>1, ReplayOutputs
<1>3. Base + Skip \in Nat /\ m \in Nat
  BY <1>2 DEF OutputsAre
<1>4. Gapless(s, read)
  BY <1>2, SpanFacts
<1>5. \A k \in OutputsOf(s) : s[k].at \in 1 .. read
  <2>1. \A k \in OutputsOf(s) : s[k].at \in Base + Skip + 1 .. read
    BY <1>2, SpanFacts
  <2>2. QED
    BY <2>1, <1>3
<1>6. s \in Seq(Item)
  BY <1>1 DEF ReplayIs
<1>7. QED
  BY <1>4, <1>5, <1>6 DEF Typed, s

\* A replay withholds what a prompt has hidden.
LEMMA ReplayDiscreet ==
  ASSUME Types, RingSound, PromptSound
  PROVE  Discreet(Replay, veiled)
<1> DEFINE s == Replay
<1>1. PICK n, m : ReplayIs(s, n, m)
  BY ReplayShape
<1> HIDE DEF s
<1>2. OutputsAre(s, n, m, Base + Skip)
  BY <1>1, ReplayOutputs
<1>3. Base \in Nat /\ Skip \in Nat /\ n \in Nat /\ m \in Nat
  <2>1. Base \in Nat /\ Len(ring) \in Nat
    BY RingFacts
  <2>2. Skip \in 0 .. Len(ring)
    BY SkippedFacts
  <2>3. QED
    BY <2>1, <2>2, <1>2 DEF OutputsAre
<1>4. ASSUME NEW i \in veiled
      PROVE  i \in Nat /\ i <= Base
  <2>1. sealed \in Nat /\ sealed <= Base /\ i \in 1 .. sealed
    BY DEF PromptSound, Types
  <2>2. QED
    BY <2>1, <1>3
<1>5. ASSUME NEW k \in DOMAIN s
      PROVE  s[k] # Frame("secret") /\ \A i \in veiled : s[k] # Output(i)
  <2>1. CASE k \in OutputsOf(s)
    <3>1. s[k].type = "output" /\ s[k].at \in Base + Skip + 1 .. Base + Skip + m
      BY <2>1, <1>2, SpanFacts DEF OutputsOf
    <3>2. \A i \in veiled : s[k].at # i
      BY <3>1, <1>3, <1>4
    <3>3. QED
      BY <3>1, <3>2 DEF Frame, Output
  <2>2. CASE k \notin OutputsOf(s)
    <3>1. \A i \in veiled : s[k] # Output(i)
      BY <2>2 DEF OutputsOf, Output
    <3>2. k \in 1 .. n + m + 1 /\ k \notin n + 1 .. n + m
      BY <2>2, <1>1, <1>2 DEF ReplayIs, OutputsAre
    <3>3. k \in 1 .. n \/ k = n + m + 1
      BY <3>2, <1>3
    <3>4. s[k] \in {Frame("enter"), Frame("reopen"), Frame("backlog_end")}
      BY <3>3, <1>1 DEF ReplayIs
    <3>5. QED
      BY <3>1, <3>4 DEF Frame
  <2>3. QED
    BY <2>1, <2>2
<1>6. QED
  BY <1>5 DEF Discreet, s

\* A replay begins neither inside a string nor behind one that was cut, unless
\* it opens it again.
LEMMA ReplayBegins ==
  ASSUME Types, RingSound, PromptSound, StringsSound, NEW s, NEW n, NEW m, ReplayIs(s, n, m)
  PROVE  MayBegin(s, RingHead, out, veiled, Base + Skip + 1)
<1> DEFINE f == Base + Skip + 1
<1>1. /\ RingHead = Base + 1 /\ Len(ring) \in Nat /\ read = Base + Len(ring) /\ Base \in Nat
      /\ \A k \in 1 .. Len(ring) : ring[k] = Base + k
  BY RingFacts
<1>2. Skip \in 0 .. Len(ring)
  BY SkippedFacts
<1>3. Skip \in Nat /\ f \in Nat
  BY <1>1, <1>2
<1>4. SUFFICES ASSUME NEW j \in 1 .. f - 1, LastMark(out, f, j), out[j] = "open",
                      ~(j < RingHead)
               PROVE  HasReopen(s)
  BY DEF MayBegin
<1>5. /\ j - Base \in 1 .. Skip /\ Base + (j - Base) = j
      /\ Skip >= 1 /\ Base + Skip = f - 1 /\ f - 1 \in Nat
  BY <1>1, <1>2, <1>3, <1>4
<1>6. /\ ring[j - Base] = j /\ ring[Skip] = f - 1
  <2>1. j - Base \in 1 .. Len(ring) /\ Skip \in 1 .. Len(ring)
    BY <1>1, <1>2, <1>5
  <2>2. QED
    BY <2>1, <1>1, <1>5
<1>7. CASE Skip = Cut /\ ~(CutString(Cut) /\ Terminator(Cut) # 0)
  <2>1. CASE Skip < Len(ring)
    <3>1. Skip \in 1 .. Len(ring) - 1
      BY <2>1, <1>1, <1>3, <1>5
    <3>2. ASSUME NEW i \in j - Base + 1 .. Skip
          PROVE  out[ring[i]] \notin Marks
      <4>1. i \in 1 .. Len(ring) /\ Base + i \in j + 1 .. f - 1
        BY <1>1, <1>2, <1>3, <1>5
      <4>2. QED
        BY <4>1, <1>1, <1>4 DEF LastMark
    <3>3. CutString(Skip)
      BY <3>1, <3>2, <1>4, <1>5, <1>6, CutStringFacts
    <3>4. QED
      BY <3>3, <1>7 DEF ReplayIs
  <2>2. CASE Skip = Len(ring)
    <3>1. ring # <<>>
      BY <2>2, <1>5
    <3>2. out[read] = "line"
      <4>1. out[ring[Cut]] = "line"
        BY <3>1, <2>2, <1>1, <1>7, CutFacts
      <4>2. QED
        BY <4>1, <2>2, <1>1, <1>5, <1>6, <1>7
    <3>3. f = read + 1 /\ read \in Nat /\ read >= 1 /\ j \in 1 .. read
      BY <2>2, <1>1, <1>3, <1>4, <1>5
    <3>4. read \in 1 .. Len(out)
      BY <3>3 DEF Types
    <3>5. j # read
      BY <3>2, <1>4
    <3>6. j \in 1 .. read - 1
      BY <3>3, <3>5
    <3>7. LastMark(out, read, j)
      <4>1. \A i \in j + 1 .. read - 1 : i \in j + 1 .. f - 1
        BY <3>3
      <4>2. QED
        BY <4>1, <3>6, <1>4 DEF LastMark
    <3>8. out[read] \in {"text", "close"}
      BY <3>4, <3>6, <3>7, <1>4 DEF StringsSound
    <3>9. QED
      BY <3>2, <3>8
  <2>3. QED
    BY <2>1, <2>2, <1>1, <1>2
<1>8. CASE Skip \in 1 .. Len(ring) /\ out[ring[Skip]] = "close"
  <2>1. out[f - 1] = "close"
    BY <1>6, <1>8
  <2>2. CASE j = f - 1
    BY <2>1, <2>2, <1>4
  <2>3. CASE j # f - 1
    <3>1. f - 1 \in j + 1 .. f - 1
      BY <2>3, <1>3, <1>4
    <3>2. QED
      BY <3>1, <2>1, <1>4 DEF LastMark, Marks
  <2>4. QED
    BY <2>2, <2>3
<1>9. QED
  BY <1>7, <1>8, SkippedFacts

LEMMA ReplayWhole ==
  ASSUME Types, RingSound, PromptSound, StringsSound
  PROVE  Whole(Replay, RingHead, out, veiled, read)
<1> DEFINE s == Replay
           b == Base + Skip
<1>1. PICK n, m : ReplayIs(s, n, m)
  BY ReplayShape
<1> HIDE DEF s
<1>2. OutputsAre(s, n, m, b) /\ read = b + m
  BY <1>1, ReplayOutputs
<1>3. MayBegin(s, RingHead, out, veiled, b + 1)
  BY <1>1, ReplayBegins
<1> HIDE DEF b
<1>4. n \in Nat /\ m \in Nat /\ b \in Nat
  BY <1>2 DEF OutputsAre
<1>5. ASSUME NEW k \in OutputsOf(s), \A l \in OutputsOf(s) : k <= l
      PROVE  s[k].at = b + 1
  <2>1. k \in n + 1 .. n + m
    BY <1>2 DEF OutputsAre
  <2>2. n + 1 \in OutputsOf(s)
    BY <2>1, <1>2, <1>4, SpanFacts
  <2>3. k \in Nat /\ k <= n + 1 /\ s[k].at = b + (k - n)
    BY <2>2, <1>2, <1>5, SpanFacts
  <2>4. QED
    BY <2>1, <2>3, <1>4
<1>6. OutputsOf(s) = {} => read + 1 = b + 1
  <2>1. OutputsOf(s) = {} => m = 0
    BY <1>2, SpanFacts
  <2>2. QED
    BY <2>1, <1>2, <1>4
<1>7. QED
  BY <1>3, <1>5, <1>6 DEF Whole, s

\* A viewer is shown something, unless there is nothing or the last of it ends a
\* line or a string.
LEMMA ReplayFeeds ==
  ASSUME Types, RingSound, PromptSound, ring # <<>>, out[read] \notin {"line", "close"}
  PROVE  OutputsOf(Replay) # {}
<1> DEFINE s == Replay
<1>1. PICK n, m : ReplayIs(s, n, m)
  BY ReplayShape
<1> HIDE DEF s
<1>2. OutputsAre(s, n, m, Base + Skip) /\ m = Len(ring) - Skip
  BY <1>1, ReplayOutputs DEF ReplayIs
<1>3. Len(ring) \in Nat \ {0} /\ ring[Len(ring)] = read
  <2>1. /\ Len(ring) \in Nat \ {0} /\ read = Base + Len(ring)
        /\ \A k \in 1 .. Len(ring) : ring[k] = Base + k
    BY RingFacts
  <2>2. QED
    BY <2>1
<1>4. Skip # Len(ring)
  <2>1. SUFFICES ASSUME Skip = Len(ring)
                 PROVE  FALSE
    OBVIOUS
  <2>2. CASE Skip = Cut
    <3>1. Cut = Len(ring) /\ (Cut < Len(ring) \/ out[ring[Cut]] = "line")
      BY <2>1, <2>2, CutFacts
    <3>2. ~(Len(ring) < Len(ring))
      BY <1>3
    <3>3. out[read] = "line"
      BY <3>1, <3>2, <1>3
    <3>4. QED
      BY <3>3
  <2>3. CASE out[ring[Skip]] = "close"
    BY <2>1, <2>3, <1>3
  <2>4. QED
    BY <2>2, <2>3, SkippedFacts
<1>5. m # 0
  <2>1. Skip \in 0 .. Len(ring)
    BY SkippedFacts
  <2>2. QED
    BY <2>1, <1>2, <1>3, <1>4
<1>6. QED
  BY <1>2, <1>5, SpanFacts DEF s

\* The screen a replay ends on: that of the last switch among the units it has,
\* or else that of its first frames.
LEMMA SpanShows ==
  ASSUME NEW s, NEW n, NEW m, NEW b, OutputsAre(s, n, m, b), DOMAIN s = 1 .. n + m + 1,
         s[n + m + 1] = Frame("backlog_end"), NEW o,
         \A k \in 1 .. n : s[k] \in {Frame("enter"), Frame("reopen")}
  PROVE  /\ \A e \in b + 1 .. b + m :
              o[e] \in Switches /\ (\A j \in e + 1 .. b + m : o[j] \notin Switches) => Shows(s, o, o[e])
         /\ (\A j \in b + 1 .. b + m : o[j] \notin Switches) =>
              /\ (\A k \in 1 .. n : s[k] = Frame("reopen")) => Shows(s, o, "leave")
              /\ n >= 1 /\ s[1] = Frame("enter") /\ (\A k \in 2 .. n : s[k] = Frame("reopen")) =>
                   Shows(s, o, "enter")
<1>1. n \in Nat /\ m \in Nat /\ b \in Nat
  BY DEF OutputsAre
<1>2. \A k \in n + 1 .. n + m : KindAt(s, o, k) = o[b + (k - n)]
  BY FieldsOfOutput DEF OutputsAre, KindAt
<1>3. KindAt(s, o, n + m + 1) \notin Switches
  BY DEF KindAt, Frame, Switches
<1>4. \A k \in 1 .. n : /\ s[k] = Frame("reopen") => KindAt(s, o, k) \notin Switches
                        /\ s[k] = Frame("enter") => KindAt(s, o, k) = "enter"
  BY DEF KindAt, Frame, Switches
<1>5. ASSUME NEW e \in b + 1 .. b + m, o[e] \in Switches,
             \A j \in e + 1 .. b + m : o[j] \notin Switches
      PROVE  Shows(s, o, o[e])
  <2> DEFINE i == n + (e - b)
  <2>1. i \in n + 1 .. n + m /\ b + (i - n) = e /\ i \in DOMAIN s
    BY <1>1
  <2> HIDE DEF i
  <2>2. KindAt(s, o, i) = o[e]
    BY <2>1, <1>2
  <2>3. ASSUME NEW j \in DOMAIN s, j > i
        PROVE  KindAt(s, o, j) \notin Switches
    <3>1. CASE j = n + m + 1
      BY <3>1, <1>3
    <3>2. CASE j # n + m + 1
      <4>1. j \in i + 1 .. n + m
        <5>1. j \in 1 .. n + m + 1 /\ i \in Nat
          BY <2>1, <1>1
        <5>2. QED
          BY <5>1, <3>2, <2>3, <1>1
      <4>2. j \in n + 1 .. n + m
        BY <4>1, <2>1, <1>1
      <4>3. b + (j - n) \in e + 1 .. b + m
        <5>1. i \in Int /\ j \in Int /\ e \in Int /\ i = e - b + n
          BY <4>1, <2>1, <1>1
        <5>2. QED
          BY <5>1, <4>1, <1>1
      <4>4. QED
        BY <4>2, <4>3, <1>2, <1>5
    <3>3. QED
      BY <3>1, <3>2
  <2>4. QED
    BY <2>1, <2>2, <2>3, <1>5 DEF Shows
<1>6. ASSUME \A j \in b + 1 .. b + m : o[j] \notin Switches
      PROVE  \A j \in DOMAIN s : j \notin 1 .. n => KindAt(s, o, j) \notin Switches
  <2>1. SUFFICES ASSUME NEW j \in DOMAIN s, j \notin 1 .. n
                 PROVE  KindAt(s, o, j) \notin Switches
    OBVIOUS
  <2>2. CASE j = n + m + 1
    BY <2>2, <1>3
  <2>3. CASE j # n + m + 1
    <3>1. j \in n + 1 .. n + m /\ b + (j - n) \in b + 1 .. b + m
      BY <2>1, <2>3, <1>1
    <3>2. QED
      BY <3>1, <1>2, <1>6
  <2>4. QED
    BY <2>2, <2>3
<1>7. ASSUME \A j \in b + 1 .. b + m : o[j] \notin Switches,
             \A k \in 1 .. n : s[k] = Frame("reopen")
      PROVE  Shows(s, o, "leave")
  BY <1>4, <1>6, <1>7 DEF Shows
<1>8. ASSUME \A j \in b + 1 .. b + m : o[j] \notin Switches,
             n >= 1, s[1] = Frame("enter"), \A k \in 2 .. n : s[k] = Frame("reopen")
      PROVE  Shows(s, o, "enter")
  <2>1. 1 \in 1 .. n /\ 1 \in DOMAIN s
    BY <1>1, <1>8
  <2>2. KindAt(s, o, 1) = "enter" /\ "enter" \in Switches
    BY <2>1, <1>4, <1>8 DEF Switches
  <2>3. ASSUME NEW j \in DOMAIN s, j > 1
        PROVE  KindAt(s, o, j) \notin Switches
    <3>1. CASE j \in 1 .. n
      <4>1. j \in 2 .. n
        BY <3>1, <2>3, <1>1
      <4>2. QED
        BY <4>1, <3>1, <1>4, <1>8
    <3>2. CASE j \notin 1 .. n
      BY <3>2, <1>6, <1>8
    <3>3. QED
      BY <3>1, <3>2
  <2>4. QED
    BY <2>1, <2>2, <2>3 DEF Shows
<1>9. QED
  BY <1>5, <1>7, <1>8

LEMMA ReplayShows ==
  ASSUME Types, RingSound, PromptSound, AltSound
  PROVE  Shows(Replay, out, Screen)
<1> DEFINE s == Replay
           b == Base + Skip
<1>1. PICK n, m : ReplayIs(s, n, m)
  BY ReplayShape
<1> HIDE DEF s
<1>2. OutputsAre(s, n, m, b) /\ read = b + m
  BY <1>1, ReplayOutputs
<1>3. /\ Base \in Nat /\ Len(ring) \in Nat /\ RingStart \in Nat /\ read = Base + Len(ring)
      /\ RingStart = backlogAbs - Len(ring) /\ backlogAbs \in Nat
  BY RingFacts DEF RingStart, Types
<1>4. Skip \in 0 .. Len(ring) /\ n \in Nat /\ m \in Nat /\ b \in Nat
  BY <1>2, SkippedFacts DEF OutputsAre
<1>5. /\ DOMAIN s = 1 .. n + m + 1 /\ s[n + m + 1] = Frame("backlog_end")
      /\ \A k \in 1 .. n : s[k] \in {Frame("enter"), Frame("reopen")}
  BY <1>1 DEF ReplayIs
<1>6. ASSUME NEW e \in b + 1 .. read, out[e] \in Switches,
             \A j \in e + 1 .. read : out[j] \notin Switches
      PROVE  Shows(s, out, out[e])
  <2> HIDE DEF b
  <2>1. QED
    BY <1>2, <1>5, <1>6, SpanShows
<1>7. ASSUME \A j \in b + 1 .. read : out[j] \notin Switches
      PROVE  /\ NeedsAltEnter(Skip) => Shows(s, out, "enter")
             /\ ~NeedsAltEnter(Skip) => Shows(s, out, "leave")
  <2>1. /\ NeedsAltEnter(Skip) => /\ n >= 1 /\ s[1] = Frame("enter")
                                  /\ \A k \in 2 .. n : s[k] = Frame("reopen")
        /\ ~NeedsAltEnter(Skip) => \A k \in 1 .. n : s[k] = Frame("reopen")
    BY <1>1 DEF ReplayIs
  <2> HIDE DEF b
  <2>2. QED
    BY <2>1, <1>2, <1>5, <1>7, SpanShows
<1>8. CASE alt.in
  <2>1. PICK e \in 1 .. read :
               /\ out[e] = "enter" /\ \A j \in e + 1 .. read : out[j] \notin Switches
               /\ alt.enter \in Nat /\ alt.enter < backlogAbs
               /\ IF alt.enter >= RingStart THEN read - e = backlogAbs - alt.enter - 1
                                            ELSE e <= Base
    BY <1>8 DEF AltSound
  <2>2. CASE e \in b + 1 .. read
    BY <2>1, <2>2, <1>6, <1>8 DEF Screen, Switches, s
  <2>3. CASE e \notin b + 1 .. read
    <3>1. e \in Nat /\ e <= b
      BY <2>3, <1>4
    <3>2. NeedsAltEnter(Skip)
      <4>1. CASE alt.enter >= RingStart
        <5>1. read - e = backlogAbs - alt.enter - 1
          BY <4>1, <2>1
        <5>2. alt.enter - RingStart < Skip
          BY <4>1, <5>1, <3>1, <2>1, <1>3, <1>4
        <5>3. QED
          BY <5>2, <1>8 DEF NeedsAltEnter
      <4>2. CASE ~(alt.enter >= RingStart)
        <5>1. alt.enter < RingStart
          BY <4>2, <2>1, <1>3
        <5>2. QED
          BY <5>1, <1>8 DEF NeedsAltEnter
      <4>3. QED
        BY <4>1, <4>2
    <3>3. \A j \in b + 1 .. read : j \in e + 1 .. read
      BY <3>1, <1>4
    <3>4. QED
      BY <3>2, <3>3, <2>1, <1>7, <1>8 DEF Screen, s
  <2>4. QED
    BY <2>2, <2>3
<1>9. CASE ~alt.in
  <2>1. ~NeedsAltEnter(Skip)
    BY <1>9 DEF NeedsAltEnter
  <2>2. CASE \A j \in 1 .. read : out[j] \notin Switches
    <3>1. \A j \in b + 1 .. read : j \in 1 .. read
      BY <1>4
    <3>2. QED
      BY <3>1, <2>1, <2>2, <1>7, <1>9 DEF Screen, s
  <2>3. CASE \E e \in 1 .. read :
               out[e] = "leave" /\ \A j \in e + 1 .. read : out[j] \notin Switches
    <3>1. PICK e \in 1 .. read :
               out[e] = "leave" /\ \A j \in e + 1 .. read : out[j] \notin Switches
      BY <2>3
    <3>2. CASE e \in b + 1 .. read
      BY <3>1, <3>2, <1>6, <1>9 DEF Screen, Switches, s
    <3>3. CASE e \notin b + 1 .. read
      <4>1. \A j \in b + 1 .. read : j \in e + 1 .. read
        BY <3>3, <1>4
      <4>2. QED
        BY <4>1, <3>1, <2>1, <1>7, <1>9 DEF Screen, s
    <3>4. QED
      BY <3>2, <3>3
  <2>4. QED
    BY <2>2, <2>3, <1>9 DEF AltSound
<1>10. QED
  BY <1>8, <1>9 DEF Types
-----------------------------------------------------------------------------
(* What is sent *)

LEMMA SentFacts ==
  ASSUME Types, NEW items, NEW lost, Sent(items, lost), \A c \in Conns : items[c] \in Seq(Item)
  PROVE  /\ watching' \subseteq watching /\ watching' \subseteq Conns
         /\ stream' \in [Conns -> Seq(Item)] /\ head' \in [Conns -> Nat]
         /\ \A c \in watching' : stream'[c] = stream[c] \o items[c] /\ head'[c] = head[c]
         /\ \A c \in Conns \ watching' : stream'[c] = <<>>
<1>1. /\ watching' = watching \ lost /\ watching \subseteq Conns
      /\ stream' = [c \in Conns |-> IF c \in watching' THEN stream[c] \o items[c] ELSE <<>>]
      /\ head' = [c \in Conns |-> IF c \in watching' THEN head[c] ELSE 0]
  BY DEF Sent, Types
<1>2. \A c \in Conns : stream[c] \in Seq(Item) /\ head[c] \in Nat
  BY DEF Types
<1>3. \A c \in Conns : stream[c] \o items[c] \in Seq(Item)
  BY <1>2, ConcatProperties
<1>4. <<>> \in Seq(Item)
  OBVIOUS
<1>5. stream' \in [Conns -> Seq(Item)]
  BY <1>1, <1>3, <1>4
<1>6. QED
  BY <1>1, <1>2, <1>5

\* Frames that are no output leave the streams sound.
LEMMA QuietSent ==
  ASSUME IInv, NEW items, NEW lost, Sent(items, lost),
         \A c \in Conns : Silent(items[c]),
         \A c \in Conns : c # Viewer => Discreet(items[c], veiled),
         UNCHANGED <<out, read, veiled>>
  PROVE  /\ watching' \subseteq watching /\ watching' \subseteq Conns
         /\ stream' \in [Conns -> Seq(Item)] /\ head' \in [Conns -> Nat]
         /\ StreamsSound'
         /\ \A c \in watching' : OutputsOf(stream'[c]) = OutputsOf(stream[c])
<1>1. /\ watching' \subseteq watching /\ watching' \subseteq Conns
      /\ stream' \in [Conns -> Seq(Item)] /\ head' \in [Conns -> Nat]
      /\ \A c \in watching' : stream'[c] = stream[c] \o items[c] /\ head'[c] = head[c]
      /\ \A c \in Conns \ watching' : stream'[c] = <<>>
  BY SentFacts DEF IInv, Silent
<1>2. ASSUME NEW c \in watching'
      PROVE  StreamSound(c)' /\ OutputsOf(stream'[c]) = OutputsOf(stream[c])
  <2>1. /\ c \in Conns /\ Silent(items[c]) /\ StreamSound(c) /\ read \in Nat
        /\ stream'[c] = stream[c] \o items[c] /\ head'[c] = head[c]
    <3>1. c \in watching /\ c \in Conns
      BY <1>1, <1>2
    <3>2. read \in Nat
      BY DEF IInv, Types
    <3>3. StreamSound(c)
      BY <3>1 DEF IInv, StreamsSound
    <3>4. QED
      BY <3>1, <3>2, <3>3, <1>1, <1>2
  <2>2. Typed(stream[c], read) /\ stream[c] \in Seq(Item) /\ items[c] \in Seq(Item)
    BY <2>1 DEF StreamSound, Typed, Silent
  <2>3. /\ Typed(stream'[c], read)
        /\ Gapless(stream[c], read) => Gapless(stream'[c], read)
        /\ Whole(stream[c], head[c], out, veiled, read) => Whole(stream'[c], head[c], out, veiled, read)
    BY <2>1, <2>2, SilentKeeps
  <2>4. c # Viewer => Discreet(stream'[c], veiled)
    BY <2>1, <2>2, DiscreetKeeps DEF StreamSound
  <2>5. OutputsOf(stream'[c]) = OutputsOf(stream[c])
    BY <2>1, <2>2, SilentFacts
  <2>6. QED
    BY <2>1, <2>3, <2>4, <2>5 DEF StreamSound
<1>3. QED
  BY <1>1, <1>2 DEF StreamsSound

LEMMA QuietShows ==
  ASSUME IInv, ShowsScreen, NEW items, NEW lost, Sent(items, lost),
         \A c \in Conns : Silent(items[c]),
         \A c \in Conns : \A k \in DOMAIN items[c] : items[c][k].type \notin Switches,
         UNCHANGED <<out, alt>>
  PROVE  ShowsScreen'
<1>1. SUFFICES ASSUME NEW c \in watching'
               PROVE  Shows(stream'[c], out, Screen)
  BY DEF ShowsScreen, Screen
<1>2. c \in watching /\ c \in Conns /\ stream'[c] = stream[c] \o items[c]
  BY SentFacts DEF IInv, Silent
<1>3. stream[c] \in Seq(Item) /\ Shows(stream[c], out, Screen)
  BY <1>2 DEF IInv, Types, ShowsScreen
<1>4. QED
  BY <1>2, <1>3, PlainShows

LEMMA ClosedKeeps ==
  ASSUME IInv, NEW gone, Closed(gone), UNCHANGED <<out, hidden, flips, shell, ringVars, promptVars>>,
         attached' \in BOOLEAN, phase' = phase
  PROVE  IInv' /\ (ScreenInv => ScreenInv')
<1> DEFINE items == [c \in Conns |-> <<>>]
<1>1. Sent(items, gone)
  BY DEF Closed
<1>2. \A c \in Conns : Silent(items[c]) /\ Discreet(items[c], veiled) /\ DOMAIN items[c] = {}
  BY DEF Silent, OutputsOf, Discreet
<1> HIDE DEF items
<1>3. UNCHANGED <<out, read, veiled>>
  BY DEF ringVars
<1>4. /\ watching' \subseteq watching /\ watching' \subseteq Conns
      /\ stream' \in [Conns -> Seq(Item)] /\ head' \in [Conns -> Nat]
      /\ StreamsSound'
      /\ \A c \in watching' : OutputsOf(stream'[c]) = OutputsOf(stream[c])
  BY <1>1, <1>2, <1>3, QuietSent
<1>5. Types' /\ RingSound' /\ PromptSound' /\ StringsSound' /\ EndSound'
  BY <1>4 DEF IInv, Types, RingSound, Base, PromptSound, StringsSound, EndSound, ringVars, promptVars
<1>6. ViewerFed'
  BY <1>4 DEF IInv, ViewerFed, ringVars
<1>7. ASSUME ScreenInv
      PROVE  ScreenInv'
  <2>1. ShowsScreen'
    BY <1>1, <1>2, <1>7, QuietShows DEF ScreenInv, ringVars
  <2>2. AltSound' /\ QuietPrompt'
    BY <1>7 DEF ScreenInv, AltSound, RingStart, Base, QuietPrompt, ringVars, promptVars
  <2>3. QED
    BY <2>1, <2>2 DEF ScreenInv
<1>8. QED
  BY <1>4, <1>5, <1>6, <1>7 DEF IInv
-----------------------------------------------------------------------------
(* The steps that read and send nothing *)

\* The opening of a string that is not closed, as the model finds it.
LEMMA OpenerFacts ==
  ASSUME out \in Seq(Kinds), NEW f \in Nat, f >= 1
  PROVE  /\ \A j : LastMark(out, f, j) => Opener(f) = j
         /\ InString(f) <=> \E j \in 1 .. f - 1 : LastMark(out, f, j) /\ out[j] = "open"
<1> DEFINE marks == {j \in 1 .. f - 1 : out[j] \in {"open", "close"}}
<1>1. f - 1 \in Nat /\ marks \subseteq 1 .. f - 1
  OBVIOUS
<1>2. /\ marks = {} => Last(marks) = 0
      /\ marks # {} => Last(marks) \in marks /\ \A y \in marks : y <= Last(marks)
  <2> HIDE DEF marks
  <2>1. QED
    BY <1>1, LastFacts
<1>3. ASSUME NEW j, LastMark(out, f, j)
      PROVE  Opener(f) = j
  <2>1. j \in marks
    BY <1>3 DEF LastMark, Marks
  <2>2. Last(marks) \in marks /\ j <= Last(marks)
    BY <2>1, <1>2
  <2>3. \A i \in marks : ~(i \in j + 1 .. f - 1)
    BY <1>3 DEF LastMark, Marks
  <2>4. Last(marks) \in Nat /\ j \in Nat /\ Last(marks) <= f - 1
    BY <2>1, <2>2
  <2>5. Last(marks) = j
    BY <2>2, <2>3, <2>4
  <2>6. QED
    BY <2>5 DEF Opener
<1>4. ASSUME InString(f)
      PROVE  \E j \in 1 .. f - 1 : LastMark(out, f, j) /\ out[j] = "open"
  <2>1. Opener(f) = Last(marks) /\ Last(marks) # 0 /\ out[Last(marks)] = "open"
    BY <1>4 DEF InString, Opener
  <2>2. Last(marks) \in marks /\ \A y \in marks : y <= Last(marks)
    BY <2>1, <1>2
  <2>3. ASSUME NEW i \in Last(marks) + 1 .. f - 1
        PROVE  out[i] \notin Marks
    <3>1. Last(marks) \in 1 .. f - 1
      BY <2>2
    <3>2. i \in 1 .. f - 1 /\ ~(i <= Last(marks))
      BY <3>1
    <3>3. i \notin marks
      BY <3>2, <2>2
    <3>4. QED
      BY <3>2, <3>3 DEF Marks
  <2>4. LastMark(out, f, Last(marks))
    BY <2>2, <2>3 DEF LastMark, Marks
  <2>5. QED
    BY <2>1, <2>2, <2>4
<1>5. ASSUME NEW j \in 1 .. f - 1, LastMark(out, f, j), out[j] = "open"
      PROVE  InString(f)
  <2>1. Opener(f) = j
    BY <1>3, <1>5
  <2>2. QED
    BY <2>1, <1>5 DEF InString
<1>6. QED
  BY <1>3, <1>4, <1>5

LEMMA ShellWritesKeeps ==
  ASSUME IInv, NEW kind \in Kinds, ShellWrites(kind)
  PROVE  IInv' /\ (~SwitchInPrompt /\ ScreenInv => ScreenInv')
<1> DEFINE n == Len(out) + 1
<1>1. /\ out' = Append(out, kind) /\ shell /\ UNCHANGED <<hidden, flips, shell, podVars, phase>>
      /\ IF InString(n) THEN kind \in {"text", "close"} ELSE kind # "close"
      /\ kind \in Switches => SwitchInPrompt \/ ~(passwordMode \/ hidden)
  BY DEF ShellWrites
<1>2. UNCHANGED <<hidden, flips, shell, phase, read, ring, backlogAbs, alt, veiled, passwordMode,
                  sealed, shareBlocked, watching, stream, head, attached>>
  BY <1>1 DEF podVars, ringVars, promptVars, connVars
<1>3. /\ out' \in Seq(Kinds) /\ Len(out') = n /\ Len(out) \in Nat /\ out'[n] = kind
      /\ \A k \in 1 .. Len(out) : out'[k] = out[k]
  BY <1>1, AppendProperties, LenProperties DEF IInv, Types
<1>4. read \in 0 .. Len(out) /\ read \in Nat /\ out \in Seq(Kinds)
  BY <1>3 DEF IInv, Types
<1>5. Types'
  <2>1. read \in 0 .. Len(out')
    BY <1>3, <1>4
  <2>2. QED
    BY <2>1, <1>2, <1>3 DEF IInv, Types
<1>6. RingSound' /\ PromptSound'
  BY <1>2 DEF IInv, RingSound, Base, PromptSound
<1>7. EndSound'
  BY <1>1, <1>2 DEF IInv, EndSound
<1>8. StringsSound'
  <2>1. SUFFICES ASSUME NEW f \in 1 .. Len(out'), NEW j \in 1 .. f - 1,
                        LastMark(out', f, j), out'[j] = "open"
                 PROVE  out'[f] \in {"text", "close"}
    BY DEF StringsSound
  <2>2. \A i \in 1 .. f - 1 : out'[i] = out[i]
    BY <1>3
  <2>3. LastMark(out, f, j) /\ out[j] = "open"
    BY <2>1, <2>2 DEF LastMark
  <2>4. CASE f \in 1 .. Len(out)
    BY <2>3, <2>4, <1>3 DEF IInv, StringsSound
  <2>5. CASE f = n
    <3>1. InString(n)
      BY <2>1, <2>3, <2>5, <1>3, <1>4, OpenerFacts
    <3>2. QED
      BY <3>1, <2>5, <1>1, <1>3
  <2>6. QED
    BY <2>4, <2>5, <1>3
<1>9. StreamsSound'
  <2>1. ASSUME NEW c \in watching
        PROVE  StreamSound(c)'
    <3>1. StreamSound(c) /\ Typed(stream[c], read)
      BY DEF IInv, StreamsSound, StreamSound
    <3>2. Whole(stream[c], head[c], out, veiled, read) =>
            Whole(stream[c], head[c], out', veiled, read)
      BY <3>1, <1>1, <1>4, GrowthKeeps
    <3>3. QED
      BY <3>1, <3>2, <1>2 DEF StreamSound
  <2>2. QED
    BY <2>1, <1>2 DEF IInv, StreamsSound
<1>10. ViewerFed'
  <2>1. ring # <<>> => out'[read] = out[read]
    <3>1. ring # <<>> => read >= 1
      BY RingFacts DEF IInv
    <3>2. QED
      BY <3>1, <1>3, <1>4
  <2>2. QED
    BY <2>1, <1>2 DEF IInv, ViewerFed
<1>11. ASSUME ~SwitchInPrompt, ScreenInv
       PROVE  ScreenInv'
  <2>1. \A j \in 1 .. read : out'[j] = out[j]
    BY <1>3, <1>4
  <2>2. RingStart' = RingStart /\ Base' = Base
    BY <1>2 DEF RingStart, Base
  <2>3. AltSound'
    BY <2>1, <2>2, <1>2, <1>4, <1>11 DEF ScreenInv, AltSound
  <2>4. QuietPrompt'
    <3>1. SUFFICES ASSUME passwordMode \/ hidden, NEW i \in read + 1 .. Len(out')
                   PROVE  out'[i] \notin Switches
      BY <1>2 DEF QuietPrompt
    <3>2. CASE i = n
      BY <3>1, <3>2, <1>1, <1>3, <1>11
    <3>3. CASE i # n
      <4>1. i \in read + 1 .. Len(out) /\ i \in 1 .. Len(out)
        BY <3>3, <1>3, <1>4
      <4>2. QED
        BY <4>1, <3>1, <1>3, <1>11 DEF ScreenInv, QuietPrompt
    <3>4. QED
      BY <3>2, <3>3
  <2>5. ShowsScreen'
    <3>1. ASSUME NEW c \in watching
          PROVE  Shows(stream[c], out', Screen)
      <4>1. Typed(stream[c], read) /\ Shows(stream[c], out, Screen)
        BY <1>11 DEF IInv, StreamsSound, StreamSound, ScreenInv, ShowsScreen
      <4>2. QED
        BY <4>1, <1>1, <1>4, GrowthKeeps
    <3>2. QED
      BY <3>1, <1>2 DEF ShowsScreen, Screen
  <2>6. QED
    BY <2>3, <2>4, <2>5 DEF ScreenInv
<1>12. QED
  BY <1>5, <1>6, <1>7, <1>8, <1>9, <1>10, <1>11 DEF IInv

\* All but the phase, the flips and the shell stays as it is.
LEMMA QuietStepKeeps ==
  ASSUME IInv, UNCHANGED <<out, podVars>>,
         hidden' \in BOOLEAN, flips' \in Nat, shell' \in BOOLEAN,
         phase' \in {"run", "flush", "linger", "end"}, EndSound'
  PROVE  IInv' /\ (ScreenInv /\ QuietPrompt' => ScreenInv')
<1>1. UNCHANGED <<out, read, ring, backlogAbs, alt, veiled, passwordMode,
                  sealed, shareBlocked, watching, stream, head, attached>>
  BY DEF podVars, ringVars, promptVars, connVars
<1>2. Types'
  BY <1>1 DEF IInv, Types
<1>3. RingSound' /\ PromptSound' /\ StringsSound' /\ ViewerFed'
  BY <1>1 DEF IInv, RingSound, Base, PromptSound, StringsSound, ViewerFed
<1>4. StreamsSound'
  BY <1>1 DEF IInv, StreamsSound, StreamSound
<1>5. ASSUME ScreenInv, QuietPrompt'
      PROVE  ScreenInv'
  BY <1>1, <1>5 DEF ScreenInv, AltSound, RingStart, Base, ShowsScreen, Screen
<1>6. QED
  BY <1>2, <1>3, <1>4, <1>5 DEF IInv

LEMMA QuietStepsKeep ==
  ASSUME IInv, ShellFlipsEcho \/ ShellExits \/ ShellReaped \/ Flushed \/ GraceOver
  PROVE  IInv' /\ (~SwitchInPrompt /\ ScreenInv => ScreenInv')
<1>1. /\ hidden \in BOOLEAN /\ flips \in Nat /\ shell \in BOOLEAN
      /\ phase \in {"run", "flush", "linger", "end"} /\ read \in Nat /\ EndSound
  BY DEF IInv, Types
<1>2. CASE ShellFlipsEcho
  <2>1. /\ UNCHANGED <<out, podVars, shell, phase, read, passwordMode>>
        /\ hidden' \in BOOLEAN /\ flips' \in Nat /\ shell' \in BOOLEAN
    BY <1>1, <1>2 DEF ShellFlipsEcho, podVars, ringVars, promptVars
  <2>2. EndSound'
    BY <2>1, <1>1 DEF EndSound
  <2>3. ~SwitchInPrompt => QuietPrompt'
    BY <1>2, <2>1 DEF ShellFlipsEcho, QuietPrompt
  <2>4. QED
    BY <2>1, <2>2, <2>3, <1>1, QuietStepKeeps
<1>3. CASE ShellExits
  <2>1. /\ UNCHANGED <<out, podVars, hidden, flips, phase, read, passwordMode>> /\ shell' = FALSE
    BY <1>3 DEF ShellExits, podVars, ringVars, promptVars
  <2>2. EndSound'
    BY <2>1, <1>1 DEF EndSound
  <2>3. QuietPrompt => QuietPrompt'
    BY <2>1 DEF QuietPrompt
  <2>4. QED
    BY <2>1, <2>2, <2>3, <1>1, QuietStepKeeps DEF ScreenInv
<1>4. CASE ShellReaped \/ Flushed \/ GraceOver
  <2>1. /\ UNCHANGED <<out, podVars, hidden, flips, shell, read, passwordMode>>
        /\ phase' \in {"flush", "linger", "end"}
        /\ phase' # "flush" => read = Len(out)
        /\ ~shell
    BY <1>1, <1>4 DEF ShellReaped, Flushed, FlushedAll, GraceOver, EndSound,
                      shellVars, podVars, ringVars, promptVars
  <2>2. EndSound'
    BY <2>1 DEF EndSound
  <2>3. QuietPrompt => QuietPrompt'
    BY <2>1 DEF QuietPrompt
  <2>4. QED
    BY <2>1, <2>2, <2>3, <1>1, QuietStepKeeps DEF ScreenInv
<1>5. QED
  BY <1>2, <1>3, <1>4
-----------------------------------------------------------------------------
(* Password mode *)

LEMMA PollKeeps ==
  ASSUME IInv, NEW keys, keys = <<>> \/ hidden, Poll(keys)
  PROVE  IInv' /\ (ScreenInv => ScreenInv')
<1> DEFINE told == IF hidden = passwordMode THEN <<>>
                   ELSE <<Frame(IF hidden THEN "password" ELSE "plain")>>
           items == [c \in Conns |-> told]
<1>1. /\ told \in Seq(Item) /\ Silent(told) /\ Discreet(told, veiled)
      /\ \A k \in DOMAIN told : told[k].type \notin Switches
  <2>1. CASE hidden = passwordMode
    BY <2>1 DEF Silent, OutputsOf, Discreet
  <2>2. CASE hidden # passwordMode
    <3> DEFINE x == Frame(IF hidden THEN "password" ELSE "plain")
    <3>1. /\ x \in Item /\ x.type # "output" /\ x # Frame("secret") /\ x.type \notin Switches
          /\ \A i : x # Output(i)
      BY DEF Frame, Item, ItemTypes, Output, Switches
    <3>2. told = <<x>>
      BY <2>2
    <3> HIDE DEF x, told
    <3>3. told \in Seq(Item) /\ DOMAIN told = {1} /\ told[1] = x
      BY <3>1, <3>2
    <3>4. QED
      BY <3>1, <3>3 DEF Silent, OutputsOf, Discreet
  <2>3. QED
    BY <2>1, <2>2
<1>2. /\ passwordMode' = hidden
      /\ ring' = IF hidden /\ ~passwordMode THEN <<>> ELSE ring
      /\ sealed' = IF hidden = passwordMode THEN sealed ELSE read
      /\ UNCHANGED <<out, hidden, flips, shell, read, backlogAbs, alt, veiled, shareBlocked, attached, phase>>
  BY DEF Poll, Polled, RingAtPrompt, shellVars
<1>3. \E lost : Sent(items, lost)
  <2>1. \E lost : Sent([c \in Conns |-> IF c = Viewer THEN told
                                        ELSE told \o (IF hidden THEN <<>> ELSE keys)], lost)
    BY DEF Poll, Polled, Deliver
  <2>2. told \o (IF hidden THEN <<>> ELSE keys) = told
    <3> HIDE DEF told
    <3>1. told \o <<>> = told
      BY <1>1, ConcatEmptySeq
    <3>2. (IF hidden THEN <<>> ELSE keys) = <<>>
      OBVIOUS
    <3>3. QED
      BY <3>1, <3>2
  <2>3. [c \in Conns |-> IF c = Viewer THEN told
                         ELSE told \o (IF hidden THEN <<>> ELSE keys)] = items
    <3> HIDE DEF told
    <3>1. QED
      BY <2>2
  <2>4. QED
    BY <2>1, <2>3
<1>4. PICK lost : Sent(items, lost)
  BY <1>3
<1> HIDE DEF told
<1>5. \A c \in Conns : /\ Silent(items[c]) /\ Discreet(items[c], veiled)
                       /\ \A k \in DOMAIN items[c] : items[c][k].type \notin Switches
  BY <1>1
<1> HIDE DEF items
<1>6. /\ watching' \subseteq watching /\ watching' \subseteq Conns
      /\ stream' \in [Conns -> Seq(Item)] /\ head' \in [Conns -> Nat]
      /\ StreamsSound'
      /\ \A c \in watching' : OutputsOf(stream'[c]) = OutputsOf(stream[c])
  BY <1>2, <1>4, <1>5, QuietSent
<1>7. /\ read \in Nat /\ backlogAbs \in Nat /\ sealed \in Nat /\ hidden \in BOOLEAN
      /\ passwordMode \in BOOLEAN /\ ring \in Seq(Nat)
      /\ Len(ring) \in Nat /\ Len(ring) <= read /\ RingCap \in Nat
  BY LenProperties, OutputAssumption DEF IInv, Types, RingSound
<1>8. Types'
  BY <1>2, <1>6, <1>7 DEF IInv, Types
<1>9. ring' = ring \/ (hidden /\ ring' = <<>> /\ Len(ring') = 0)
  BY <1>2
<1>10. RingSound'
  <2>1. CASE ring' = ring
    BY <2>1, <1>2 DEF IInv, RingSound, Base
  <2>2. CASE ring' = <<>> /\ Len(ring') = 0
    BY <2>2, <1>2, <1>7 DEF RingSound, Base
  <2>3. QED
    BY <2>1, <2>2, <1>9
<1>11. PromptSound'
  <2>1. /\ passwordMode => ring = <<>> /\ sealed = read
        /\ sealed <= Base /\ veiled \subseteq 1 .. sealed
    BY DEF IInv, PromptSound
  <2>2. Base \in Nat /\ Base' \in Nat /\ Base <= Base' /\ Base <= read /\ Base' <= read
    BY <1>2, <1>7, <1>9 DEF Base
  <2>3. sealed' \in Nat /\ sealed <= sealed' /\ sealed' <= read
    BY <2>1, <2>2, <1>2, <1>7
  <2>4. veiled' \subseteq 1 .. sealed'
    BY <2>1, <2>3, <1>2, <1>7
  <2>5. sealed' <= Base'
    <3>1. CASE hidden = passwordMode
      BY <3>1, <2>1, <2>2, <1>2, <1>7
    <3>2. CASE hidden # passwordMode
      <4>1. Len(ring') = 0
        BY <3>2, <2>1, <1>2, <1>7
      <4>2. QED
        BY <4>1, <2>3, <1>2, <1>7 DEF Base
    <3>3. QED
      BY <3>1, <3>2
  <2>6. passwordMode' => ring' = <<>> /\ sealed' = read'
    BY <2>1, <1>2, <1>7
  <2>7. QED
    BY <2>4, <2>5, <2>6 DEF PromptSound
<1>12. StringsSound' /\ EndSound'
  BY <1>2 DEF IInv, StringsSound, EndSound
<1>13. ViewerFed'
  BY <1>2, <1>6, <1>9 DEF IInv, ViewerFed
<1>14. ASSUME ScreenInv
       PROVE  ScreenInv'
  <2>1. ShowsScreen'
    BY <1>2, <1>4, <1>5, <1>14, QuietShows DEF ScreenInv
  <2>2. QuietPrompt'
    BY <1>2, <1>14 DEF ScreenInv, QuietPrompt
  <2>3. AltSound'
    <3>1. CASE ring' = ring
      BY <3>1, <1>2, <1>14 DEF ScreenInv, AltSound, RingStart, Base
    <3>2. CASE Len(ring') = 0
      <4>1. RingStart' = backlogAbs /\ Base' = read
        BY <3>2, <1>2, <1>7 DEF RingStart, Base
      <4>2. ASSUME alt.in
            PROVE  \E e \in 1 .. read :
                     /\ out[e] = "enter" /\ \A j \in e + 1 .. read : out[j] \notin Switches
                     /\ alt.enter \in Nat /\ alt.enter < backlogAbs
                     /\ IF alt.enter >= RingStart' THEN read - e = backlogAbs - alt.enter - 1
                                                   ELSE e <= Base'
        <5>1. PICK e \in 1 .. read :
                     /\ out[e] = "enter" /\ \A j \in e + 1 .. read : out[j] \notin Switches
                     /\ alt.enter \in Nat /\ alt.enter < backlogAbs
          BY <4>2, <1>14 DEF ScreenInv, AltSound
        <5>2. ~(alt.enter >= RingStart') /\ e <= Base'
          BY <5>1, <4>1, <1>7
        <5>3. QED
          BY <5>1, <5>2
      <4>3. QED
        BY <4>2, <1>2, <1>14 DEF ScreenInv, AltSound
    <3>3. QED
      BY <3>1, <3>2, <1>9
  <2>4. QED
    BY <2>1, <2>2, <2>3 DEF ScreenInv
<1>15. QED
  BY <1>6, <1>8, <1>10, <1>11, <1>12, <1>13, <1>14 DEF IInv
-----------------------------------------------------------------------------
(* A new connection *)

LEMMA AcceptedKeeps ==
  ASSUME IInv, NEW c \in Conns, Accepted(c),
         UNCHANGED <<out, hidden, flips, shell, ringVars, promptVars>>,
         attached' \in BOOLEAN, phase' = phase
  PROVE  IInv' /\ (ScreenInv => ScreenInv')
<1>1. CASE Closed({c})
  BY <1>1, ClosedKeeps
<1>2. CASE /\ watching' = watching \union {c}
           /\ stream' = [stream EXCEPT ![c] = Replay]
           /\ head' = [head EXCEPT ![c] = RingHead]
  <2>1. UNCHANGED <<read, ring, backlogAbs, alt, veiled, passwordMode, sealed>>
    BY DEF ringVars, promptVars
  <2>2. Types /\ RingSound /\ PromptSound /\ StringsSound /\ StreamsSound
    BY DEF IInv
  <2>3. Typed(Replay, read) /\ Gapless(Replay, read) /\ Replay \in Seq(Item)
    BY <2>2, ReplayTyped DEF Typed
  <2>4. Discreet(Replay, veiled)
    BY <2>2, ReplayDiscreet
  <2>5. Whole(Replay, RingHead, out, veiled, read)
    BY <2>2, ReplayWhole
  <2>6. RingHead \in Nat
    <3>1. RingHead = Base + 1 /\ Base \in Nat
      BY <2>2, RingFacts
    <3>2. QED
      BY <3>1
  <2>7. /\ stream \in [Conns -> Seq(Item)] /\ head \in [Conns -> Nat] /\ watching \subseteq Conns
        /\ stream'[c] = Replay /\ head'[c] = RingHead
        /\ \A d \in Conns \ {c} : stream'[d] = stream[d] /\ head'[d] = head[d]
        /\ stream' \in [Conns -> Seq(Item)] /\ head' \in [Conns -> Nat] /\ watching' \subseteq Conns
    BY <1>2, <2>2, <2>3, <2>6 DEF Types
  <2>8. Types'
    BY <2>1, <2>2, <2>7 DEF Types
  <2>9. RingSound' /\ PromptSound' /\ StringsSound' /\ EndSound'
    BY <2>1 DEF IInv, RingSound, Base, PromptSound, StringsSound, EndSound
  <2>10. StreamSound(c)'
    BY <2>1, <2>3, <2>4, <2>5, <2>7 DEF StreamSound
  <2>11. ASSUME NEW d \in watching, d # c
         PROVE  StreamSound(d)'
    <3>1. StreamSound(d) /\ stream'[d] = stream[d] /\ head'[d] = head[d]
      BY <2>2, <2>7, <2>11 DEF StreamsSound
    <3>2. QED
      BY <3>1, <2>1 DEF StreamSound
  <2>12. StreamsSound'
    BY <1>2, <2>2, <2>7, <2>10, <2>11 DEF StreamsSound
  <2>13. ViewerFed'
    <3>1. CASE c = Viewer
      BY <3>1, <2>1, <2>2, <2>7, ReplayFeeds DEF ViewerFed
    <3>2. CASE c # Viewer
      BY <3>2, <1>2, <2>1, <2>7 DEF IInv, ViewerFed, Conns
    <3>3. QED
      BY <3>1, <3>2
  <2>14. ASSUME ScreenInv
         PROVE  ScreenInv'
    <3>1. AltSound' /\ QuietPrompt' /\ Screen' = Screen
      BY <2>1, <2>14 DEF ScreenInv, AltSound, RingStart, Base, QuietPrompt, Screen
    <3>2. Shows(Replay, out, Screen)
      BY <2>2, <2>14, ReplayShows DEF ScreenInv
    <3>3. ASSUME NEW d \in watching'
          PROVE  Shows(stream'[d], out, Screen)
      <4>1. CASE d = c
        BY <4>1, <3>2, <2>7
      <4>2. CASE d # c
        BY <4>2, <1>2, <2>7, <2>14 DEF ScreenInv, ShowsScreen
      <4>3. QED
        BY <4>1, <4>2
    <3>4. ShowsScreen'
      BY <3>1, <3>3 DEF ShowsScreen
    <3>5. QED
      BY <3>1, <3>4 DEF ScreenInv
  <2>15. QED
    BY <2>8, <2>9, <2>12, <2>13, <2>14 DEF IInv
<1>3. QED
  BY <1>1, <1>2 DEF Accepted
-----------------------------------------------------------------------------
(* The next unit of output *)

LEMMA DiscreetVeils ==
  ASSUME NEW s, NEW r \in Nat, Typed(s, r), NEW v, Discreet(s, v)
  PROVE  Discreet(s, v \union {r + 1})
<1>1. ASSUME NEW k \in DOMAIN s
      PROVE  s[k] # Output(r + 1)
  <2>1. CASE k \in OutputsOf(s)
    <3>1. s[k].at \in 1 .. r
      BY <2>1 DEF Typed
    <3>2. s[k].at # r + 1
      BY <3>1
    <3>3. QED
      BY <3>2, FieldsOfOutput
  <2>2. CASE k \notin OutputsOf(s)
    BY <2>2, FieldsOfOutput DEF OutputsOf
  <2>3. QED
    BY <2>1, <2>2
<1>2. QED
  BY <1>1 DEF Discreet

LEMMA WholeVeils ==
  ASSUME NEW s, NEW h, NEW o, NEW v, NEW w, v \subseteq w, NEW r, Whole(s, h, o, v, r)
  PROVE  Whole(s, h, o, w, r)
<1>1. \A f : MayBegin(s, h, o, v, f) => MayBegin(s, h, o, w, f)
  BY DEF MayBegin
<1>2. QED
  BY <1>1 DEF Whole

LEMMA AppendedFacts ==
  ASSUME NEW r \in Seq(Nat), NEW n \in Nat, Len(r) <= n, Len(r) <= RingCap,
         \A k \in 1 .. Len(r) : r[k] = n - Len(r) + k
  PROVE  LET t == Appended(r, n + 1)
         IN /\ t \in Seq(Nat) /\ Len(t) \in Nat /\ Len(t) >= 1 /\ Len(t) <= Len(r) + 1
            /\ Len(t) <= RingCap
            /\ \A k \in 1 .. Len(t) : t[k] = n + 1 - Len(t) + k
<1> DEFINE i == n + 1
<1>1. Len(r) \in Nat /\ RingCap \in Nat \ {0} /\ i \in Nat
  BY LenProperties, OutputAssumption
<1>2. CASE Len(r) < RingCap
  <2>1. /\ Append(r, i) \in Seq(Nat) /\ Len(Append(r, i)) = Len(r) + 1
        /\ \A k \in 1 .. Len(r) : Append(r, i)[k] = r[k]
        /\ Append(r, i)[Len(r) + 1] = i
    BY <1>1, AppendProperties
  <2>2. Appended(r, i) = Append(r, i)
    BY <1>2 DEF Appended
  <2> HIDE DEF i
  <2>3. ASSUME NEW k \in 1 .. Len(r) + 1
        PROVE  Append(r, i)[k] = i - (Len(r) + 1) + k
    <3>1. CASE k = Len(r) + 1
      BY <3>1, <2>1, <1>1
    <3>2. CASE k # Len(r) + 1
      <4>1. k \in 1 .. Len(r)
        BY <3>2, <1>1
      <4>2. Append(r, i)[k] = n - Len(r) + k
        BY <4>1, <2>1
      <4>3. QED
        BY <4>1, <4>2, <1>1 DEF i
    <3>3. QED
      BY <3>1, <3>2
  <2>4. Len(r) + 1 \in Nat /\ Len(r) + 1 >= 1 /\ Len(r) + 1 <= RingCap
    BY <1>1, <1>2
  <2> DEFINE t == Appended(r, i)
  <2>5. /\ t \in Seq(Nat) /\ Len(t) = Len(r) + 1
        /\ \A k \in 1 .. Len(t) : t[k] = i - Len(t) + k
    BY <2>1, <2>2, <2>3
  <2>6. Len(t) \in Nat /\ Len(t) >= 1 /\ Len(t) <= Len(r) + 1 /\ Len(t) <= RingCap
    <3> HIDE DEF t
    <3>1. QED
      BY <2>4, <2>5, <1>1
  <2>7. QED
    BY <2>5, <2>6 DEF i
<1>3. CASE ~(Len(r) < RingCap)
  <2> DEFINE u == Tail(r)
  <2>1. Len(r) = RingCap /\ r # <<>>
    BY <1>1, <1>3
  <2>2. u \in Seq(Nat) /\ Len(u) = Len(r) - 1 /\ \A k \in 1 .. Len(u) : u[k] = r[k + 1]
    BY <2>1, HeadTailProperties
  <2>3. Appended(r, i) = Append(u, i)
    BY <1>3 DEF Appended
  <2> HIDE DEF u, i
  <2>4. /\ Append(u, i) \in Seq(Nat) /\ Len(Append(u, i)) = Len(u) + 1
        /\ \A k \in 1 .. Len(u) : Append(u, i)[k] = u[k]
        /\ Append(u, i)[Len(u) + 1] = i
    BY <1>1, <2>2, AppendProperties
  <2>5. Len(u) \in Nat /\ Len(u) + 1 = Len(r)
    BY <1>1, <2>1, <2>2
  <2>6. ASSUME NEW k \in 1 .. Len(r)
        PROVE  Append(u, i)[k] = i - Len(r) + k
    <3>1. CASE k = Len(r)
      BY <3>1, <2>4, <2>5, <1>1
    <3>2. CASE k # Len(r)
      <4>1. k \in 1 .. Len(u) /\ k + 1 \in 1 .. Len(r)
        BY <3>2, <2>5, <1>1
      <4>2. Append(u, i)[k] = n - Len(r) + (k + 1)
        BY <4>1, <2>2, <2>4
      <4>3. QED
        BY <4>1, <4>2, <1>1 DEF i
    <3>3. QED
      BY <3>1, <3>2
  <2> DEFINE t == Appended(r, i)
  <2>7. /\ t \in Seq(Nat) /\ Len(t) = Len(r)
        /\ \A k \in 1 .. Len(t) : t[k] = i - Len(t) + k
    BY <2>3, <2>4, <2>5, <2>6
  <2>8. Len(t) \in Nat /\ Len(t) >= 1 /\ Len(t) <= Len(r) + 1 /\ Len(t) <= RingCap
    <3> HIDE DEF t
    <3>1. QED
      BY <2>1, <2>7, <1>1
  <2>9. QED
    BY <2>7, <2>8 DEF i
<1>4. QED
  BY <1>2, <1>3

\* What the ring becomes.
LEMMA ProcessedRing ==
  ASSUME IInv, ProcessPtyOutput
  PROVE  /\ ring' \in Seq(Nat) /\ Len(ring') \in Nat /\ backlogAbs' \in Nat
         /\ read' = read + 1 /\ read \in Nat /\ backlogAbs \in Nat
         /\ RingSound'
         /\ Base' \in Nat /\ Base' >= Base
         /\ passwordMode => /\ ring' = <<>> /\ Len(ring') = 0 /\ Len(ring) = 0
                            /\ backlogAbs' = backlogAbs
         /\ ~passwordMode => /\ backlogAbs' = backlogAbs + 1 /\ Len(ring') >= 1
                             /\ Len(ring') <= Len(ring) + 1
<1> DEFINE i == read + 1
           scanned == IF out[i] = "clear" THEN <<>> ELSE ring
<1>1. /\ read \in Nat /\ backlogAbs \in Nat /\ ring \in Seq(Nat) /\ Len(ring) \in Nat
      /\ Len(ring) <= RingCap /\ Len(ring) <= backlogAbs /\ Len(ring) <= read
      /\ \A k \in 1 .. Len(ring) : ring[k] = read - Len(ring) + k
      /\ RingCap \in Nat \ {0}
  BY LenProperties, OutputAssumption DEF IInv, Types, RingSound, Base
<1>2. read' = i
  BY DEF ProcessPtyOutput
<1>3. CASE passwordMode
  <2>1. ring = <<>>
    BY <1>3 DEF IInv, PromptSound
  <2>2. ring' = <<>> /\ backlogAbs' = backlogAbs
    BY <2>1, <1>3 DEF ProcessPtyOutput
  <2>3. ring' \in Seq(Nat) /\ Len(ring') = 0 /\ Len(ring) = 0
    BY <2>1, <2>2
  <2>4. RingSound' /\ Base' \in Nat /\ Base' >= Base
    BY <2>2, <2>3, <1>1, <1>2 DEF RingSound, Base
  <2>5. QED
    BY <2>2, <2>3, <2>4, <1>1, <1>2, <1>3
<1>4. CASE ~passwordMode
  <2>1. ring' = Appended(scanned, i) /\ backlogAbs' = backlogAbs + 1
    BY <1>4 DEF ProcessPtyOutput
  <2>2. /\ scanned \in Seq(Nat) /\ Len(scanned) \in Nat /\ Len(scanned) <= Len(ring)
        /\ \A k \in 1 .. Len(scanned) : scanned[k] = read - Len(scanned) + k
    <3>1. CASE out[i] = "clear"
      <4>1. scanned = <<>> /\ Len(scanned) = 0 /\ scanned \in Seq(Nat)
        BY <3>1
      <4> HIDE DEF scanned
      <4>2. QED
        BY <4>1, <1>1
    <3>2. CASE out[i] # "clear"
      <4>1. scanned = ring
        BY <3>2
      <4> HIDE DEF scanned
      <4>2. QED
        BY <4>1, <1>1
    <3>3. QED
      BY <3>1, <3>2
  <2> HIDE DEF scanned
  <2>3. Len(scanned) <= read /\ Len(scanned) <= RingCap
    BY <2>2, <1>1
  <2>4. /\ ring' \in Seq(Nat) /\ Len(ring') \in Nat /\ Len(ring') >= 1
        /\ Len(ring') <= Len(scanned) + 1 /\ Len(ring') <= RingCap
        /\ \A k \in 1 .. Len(ring') : ring'[k] = read + 1 - Len(ring') + k
    BY <2>1, <2>2, <2>3, <1>1, AppendedFacts
  <2>5. Len(ring') <= Len(ring) + 1
    BY <2>2, <2>4, <1>1
  <2>6. Base' = read + 1 - Len(ring') /\ Base' \in Nat /\ Base' >= Base
    BY <2>4, <2>5, <1>1, <1>2 DEF Base
  <2>7. RingSound'
    <3>1. Len(ring') <= backlogAbs' /\ Len(ring') <= read'
      BY <2>1, <2>4, <2>5, <1>1, <1>2
    <3>2. QED
      BY <3>1, <2>4, <2>6 DEF RingSound
  <2>8. QED
    BY <2>1, <2>4, <2>5, <2>6, <2>7, <1>1, <1>2, <1>4
<1>5. QED
  BY <1>3, <1>4

\* It is sent to all, or, during a prompt, to the viewer alone.
LEMMA ProcessedStreams ==
  ASSUME IInv, ProcessPtyOutput
  PROVE  /\ watching' \subseteq watching /\ watching' \subseteq Conns
         /\ stream' \in [Conns -> Seq(Item)] /\ head' \in [Conns -> Nat]
         /\ \A c \in watching' :
              stream'[c] = stream[c] \o IF passwordMode /\ c # Viewer THEN <<>> ELSE <<Output(read + 1)>>
         /\ StreamsSound'
         /\ ~passwordMode => ViewerFed'
<1> DEFINE i == read + 1
           items == [c \in Conns |-> IF passwordMode /\ c # Viewer THEN <<>> ELSE <<Output(i)>>]
<1>1. /\ read \in Nat /\ i \in Nat /\ Output(i) \in Item
      /\ read' = i /\ out' = out /\ passwordMode' = passwordMode
      /\ veiled' = IF passwordMode THEN veiled \union {i} ELSE veiled
  <2>1. read \in Nat
    BY DEF IInv, Types
  <2>2. Output(i) \in Item
    BY <2>1 DEF Output, Item, ItemTypes
  <2>3. QED
    BY <2>1, <2>2 DEF ProcessPtyOutput, shellVars
<1>2. \E lost : Sent(items, lost)
  <2>1. CASE passwordMode
    <3>1. Deliver(<<Output(i)>>, <<>>)
      BY <2>1 DEF ProcessPtyOutput
    <3>2. items = [c \in Conns |-> IF c = Viewer THEN <<Output(i)>> ELSE <<>>]
      BY <2>1
    <3> HIDE DEF items
    <3>3. QED
      BY <3>1, <3>2 DEF Deliver
  <2>2. CASE ~passwordMode
    <3>1. Deliver(<<Output(i)>>, <<Output(i)>>)
      BY <2>2 DEF ProcessPtyOutput
    <3>2. items = [c \in Conns |-> IF c = Viewer THEN <<Output(i)>> ELSE <<Output(i)>>]
      BY <2>2
    <3> HIDE DEF items
    <3>3. QED
      BY <3>1, <3>2 DEF Deliver
  <2>3. QED
    BY <2>1, <2>2
<1>3. PICK lost : Sent(items, lost)
  BY <1>2
<1>4. \A c \in Conns : items[c] \in Seq(Item)
  BY <1>1
<1>5. /\ watching' \subseteq watching /\ watching' \subseteq Conns
      /\ stream' \in [Conns -> Seq(Item)] /\ head' \in [Conns -> Nat]
      /\ \A c \in watching' : stream'[c] = stream[c] \o items[c] /\ head'[c] = head[c]
      /\ \A c \in Conns \ watching' : stream'[c] = <<>>
  <2> HIDE DEF items
  <2>1. Types
    BY DEF IInv
  <2>2. QED
    BY <2>1, <1>3, <1>4, SentFacts
<1>6. \A c \in watching' :
        stream'[c] = stream[c] \o IF passwordMode /\ c # Viewer THEN <<>> ELSE <<Output(i)>>
  BY <1>5
<1>7. ASSUME NEW c \in watching'
      PROVE  /\ StreamSound(c)'
             /\ ~passwordMode => OutputsOf(stream'[c]) # {}
  <2> DEFINE s == stream[c]
  <2>1. c \in watching /\ c \in Conns
    BY <1>5
  <2>2. StreamSound(c)
    BY <2>1 DEF IInv, StreamsSound
  <2>3. /\ Typed(s, read) /\ s \in Seq(Item) /\ Whole(s, head[c], out, veiled, read)
        /\ c = Viewer => Gapless(s, read)
        /\ c # Viewer => Discreet(s, veiled)
    BY <2>2 DEF StreamSound, Typed
  <2> HIDE DEF s
  <2>4. CASE passwordMode /\ c # Viewer
    <3>1. stream'[c] = s
      <4>1. stream'[c] = s \o <<>>
        BY <2>4, <1>6 DEF s
      <4>2. QED
        BY <4>1, <2>3, ConcatEmptySeq
    <3>2. Typed(s, i) /\ Whole(s, head[c], out, veiled', i)
      BY <2>3, <2>4, <1>1, VeiledKeeps
    <3>3. Discreet(s, veiled')
      BY <2>3, <2>4, <1>1, DiscreetVeils
    <3>4. QED
      BY <3>1, <3>2, <3>3, <2>4, <1>1, <1>5 DEF StreamSound
  <2>5. CASE ~(passwordMode /\ c # Viewer)
    <3> DEFINE t == s \o <<Output(i)>>
    <3>1. stream'[c] = t
      BY <2>5, <1>6 DEF s
    <3>2. /\ Typed(t, i)
          /\ Gapless(s, read) => Gapless(t, i)
          /\ Whole(t, head[c], out, veiled, i)
          /\ OutputsOf(t) # {}
      BY <2>3, <1>1, OneMoreKeeps
    <3>3. c # Viewer => Discreet(t, veiled)
      <4>1. SUFFICES ASSUME c # Viewer
                     PROVE  Discreet(t, veiled)
        OBVIOUS
      <4>2. i \notin veiled
        <5>1. sealed <= Base /\ veiled \subseteq 1 .. sealed /\ sealed \in Nat
          BY DEF IInv, PromptSound, Types
        <5>2. Base <= read /\ Base \in Nat
          <6>1. read = Base + Len(ring) /\ Len(ring) \in Nat /\ Base \in Nat
            BY RingFacts DEF IInv
          <6>2. QED
            BY <6>1
        <5>3. QED
          BY <5>1, <5>2, <1>1
      <4>3. Discreet(<<Output(i)>>, veiled)
        <5>1. Output(i) # Frame("secret") /\ \A j \in veiled : Output(i) # Output(j)
          BY <4>2 DEF Output, Frame
        <5>2. QED
          BY <5>1 DEF Discreet
      <4>4. <<Output(i)>> \in Seq(Item)
        BY <1>1
      <4>5. QED
        BY <4>1, <4>3, <4>4, <2>3, DiscreetKeeps
    <3>4. Whole(t, head[c], out, veiled', i)
      <4>1. veiled \subseteq veiled'
        BY <1>1
      <4> HIDE DEF t
      <4>2. QED
        BY <4>1, <3>2, WholeVeils
    <3> HIDE DEF t
    <3>5. c # Viewer => veiled' = veiled
      BY <2>5, <1>1
    <3>6. QED
      BY <3>1, <3>2, <3>3, <3>4, <3>5, <2>3, <1>1, <1>5 DEF StreamSound
  <2>6. QED
    BY <2>4, <2>5
<1>8. QED
  BY <1>5, <1>6, <1>7 DEF StreamsSound, ViewerFed

LEMMA ProcessKeeps ==
  ASSUME IInv, ProcessPtyOutput, phase \in {"run", "flush"}
  PROVE  IInv'
<1>1. /\ UNCHANGED <<out, hidden, flips, shell, passwordMode, attached, phase>>
      /\ read < Len(out)
      /\ sealed' = IF passwordMode THEN read + 1 ELSE sealed
      /\ veiled' = IF passwordMode THEN veiled \union {read + 1} ELSE veiled
      /\ alt' = Tracked(out[read + 1])
  BY DEF ProcessPtyOutput, shellVars
<1>2. /\ ring' \in Seq(Nat) /\ Len(ring') \in Nat /\ backlogAbs' \in Nat
      /\ read' = read + 1 /\ read \in Nat /\ backlogAbs \in Nat
      /\ RingSound' /\ Base' \in Nat /\ Base' >= Base
      /\ passwordMode => ring' = <<>> /\ Len(ring') = 0
  BY ProcessedRing
<1>3. /\ watching' \subseteq Conns
      /\ stream' \in [Conns -> Seq(Item)] /\ head' \in [Conns -> Nat]
      /\ StreamsSound' /\ (~passwordMode => ViewerFed')
  BY ProcessedStreams
<1>4. /\ sealed \in Nat /\ sealed <= Base /\ veiled \subseteq 1 .. sealed /\ passwordMode \in BOOLEAN
      /\ Base \in Nat /\ Base <= read
  <2>1. read = Base + Len(ring) /\ Len(ring) \in Nat /\ Base \in Nat /\ read \in Nat
    BY RingFacts DEF IInv
  <2>2. QED
    BY <2>1 DEF IInv, PromptSound, Types
<1>5. alt' \in [in : BOOLEAN, enter : Nat \union {None}]
  <2>1. MainScreen \in [in : BOOLEAN, enter : Nat \union {None}]
    BY DEF MainScreen
  <2>2. [in |-> TRUE, enter |-> backlogAbs] \in [in : BOOLEAN, enter : Nat \union {None}]
    BY <1>2
  <2>3. alt \in [in : BOOLEAN, enter : Nat \union {None}]
    BY DEF IInv, Types
  <2>4. alt' \in {MainScreen, [in |-> TRUE, enter |-> backlogAbs], alt}
    BY <1>1 DEF Tracked
  <2>5. QED
    BY <2>1, <2>2, <2>3, <2>4
<1>6. sealed' \in Nat /\ veiled' \subseteq Nat /\ read' \in 0 .. Len(out')
  <2>1. Len(out) \in Nat
    BY LenProperties DEF IInv, Types
  <2>2. QED
    BY <2>1, <1>1, <1>2, <1>4
<1>7. Types'
  BY <1>1, <1>2, <1>3, <1>5, <1>6 DEF IInv, Types
<1>8. PromptSound'
  <2>1. CASE passwordMode
    <3>1. sealed' = read' /\ veiled' \subseteq 1 .. sealed'
      BY <2>1, <1>1, <1>2, <1>4
    <3>2. sealed' <= Base'
      BY <3>1, <2>1, <1>2 DEF Base
    <3>3. QED
      BY <3>1, <3>2, <2>1, <1>2 DEF PromptSound
  <2>2. CASE ~passwordMode
    <3>1. sealed' = sealed /\ veiled' = veiled
      BY <2>2, <1>1
    <3>2. sealed' <= Base'
      BY <3>1, <1>2, <1>4
    <3>3. QED
      BY <3>1, <3>2, <2>2, <1>1, <1>4 DEF PromptSound
  <2>3. QED
    BY <2>1, <2>2
<1>9. StringsSound' /\ EndSound'
  BY <1>1 DEF IInv, StringsSound, EndSound
<1>10. ViewerFed'
  <2>1. passwordMode => ViewerFed'
    BY <1>2 DEF ViewerFed
  <2>2. QED
    BY <2>1, <1>3
<1>11. QED
  BY <1>2, <1>3, <1>7, <1>8, <1>9, <1>10 DEF IInv

LEMMA OffsetMoves ==
  ASSUME NEW r \in Nat, NEW b \in Nat, NEW a \in Nat, NEW e \in Nat, r - e = b - a - 1
  PROVE  /\ (r + 1) - e = (b + 1) - a - 1
         /\ \A base \in Nat, start \in Int :
              a + 1 <= start /\ base - (r + 1) = start - (b + 1) => e <= base
OBVIOUS

LEMMA NextUnitShows ==
  ASSUME IInv, ShowsScreen, ProcessPtyOutput, passwordMode => out[read + 1] \notin Switches,
         Screen' = IF out[read + 1] \in Switches THEN out[read + 1] ELSE Screen
  PROVE  ShowsScreen'
<1> DEFINE i == read + 1
<1>1. out' = out /\ i \in Nat
  <2>1. read \in Nat
    BY DEF IInv, Types
  <2>2. QED
    BY <2>1 DEF ProcessPtyOutput, shellVars
<1>2. SUFFICES ASSUME NEW c \in watching'
               PROVE  Shows(stream'[c], out, Screen')
  BY <1>1 DEF ShowsScreen
<1>3. /\ c \in watching /\ c \in Conns
      /\ stream'[c] = stream[c] \o IF passwordMode /\ c # Viewer THEN <<>> ELSE <<Output(i)>>
  BY ProcessedStreams
<1>4. stream[c] \in Seq(Item) /\ Shows(stream[c], out, Screen)
  BY <1>3 DEF IInv, Types, ShowsScreen
<1>5. CASE passwordMode /\ c # Viewer
  <2>1. stream'[c] = stream[c]
    BY <1>3, <1>4, <1>5, ConcatEmptySeq
  <2>2. QED
    BY <2>1, <1>4, <1>5
<1>6. CASE ~(passwordMode /\ c # Viewer)
  <2>1. stream'[c] = stream[c] \o <<Output(i)>>
    BY <1>3, <1>6
  <2>2. Shows(stream[c] \o <<Output(i)>>, out, IF out[i] \in Switches THEN out[i] ELSE Screen)
    BY <1>1, <1>4, OneMoreShows
  <2>3. QED
    BY <2>1, <2>2
<1>7. QED
  BY <1>5, <1>6

\* A switch that is read is tracked at its place, of which ever less is behind it
\* in the ring; during a prompt there is none.
LEMMA ProcessShows ==
  ASSUME IInv, ScreenInv, ProcessPtyOutput
  PROVE  ScreenInv'
<1> DEFINE i == read + 1
<1>1. /\ UNCHANGED <<out, hidden, passwordMode>> /\ read < Len(out) /\ alt' = Tracked(out[i])
  BY DEF ProcessPtyOutput, shellVars
<1>2. /\ ring' \in Seq(Nat) /\ Len(ring') \in Nat /\ backlogAbs' \in Nat
      /\ read' = i /\ read \in Nat /\ backlogAbs \in Nat
      /\ Base' \in Nat /\ Base' >= Base
      /\ passwordMode => Len(ring') = 0 /\ Len(ring) = 0 /\ backlogAbs' = backlogAbs
      /\ ~passwordMode => /\ backlogAbs' = backlogAbs + 1 /\ Len(ring') >= 1
                          /\ Len(ring') <= Len(ring) + 1
  BY ProcessedRing
<1>3. /\ Len(ring) \in Nat /\ Base \in Nat /\ read = Base + Len(ring)
      /\ RingStart = backlogAbs - Len(ring) /\ RingStart' = backlogAbs' - Len(ring')
      /\ Base' = i - Len(ring')
  BY <1>2, RingFacts DEF IInv, RingStart, Base
<1>4. passwordMode => out[i] \notin Switches
  <2>1. i \in read + 1 .. Len(out)
    <3>1. Len(out) \in Nat
      BY LenProperties DEF IInv, Types
    <3>2. QED
      BY <3>1, <1>1, <1>2
  <2>2. QED
    BY <2>1 DEF ScreenInv, QuietPrompt
<1>5. QuietPrompt'
  <2>1. \A j \in read' + 1 .. Len(out) : j \in read + 1 .. Len(out)
    BY <1>2
  <2>2. QED
    BY <2>1, <1>1 DEF ScreenInv, QuietPrompt
<1>6. \A j \in 1 .. i : j = i \/ j \in 1 .. read
  BY <1>2
<1>7. i \in 1 .. i /\ \A j : j \notin i + 1 .. i
  BY <1>2
<1>8. ASSUME out[i] = "enter"
      PROVE  AltSound' /\ Screen' = IF out[i] \in Switches THEN out[i] ELSE Screen
  <2>1. ~passwordMode
    BY <1>4, <1>8 DEF Switches
  <2>2. alt' = [in |-> TRUE, enter |-> backlogAbs]
    BY <1>1, <1>8 DEF Tracked
  <2>3. alt'.in /\ alt'.enter = backlogAbs
    BY <2>2
  <2>4. backlogAbs < backlogAbs' /\ backlogAbs >= RingStart' /\ i - i = backlogAbs' - backlogAbs - 1
    BY <2>1, <1>2, <1>3
  <2>5. AltSound'
    BY <2>3, <2>4, <1>1, <1>2, <1>7, <1>8 DEF AltSound
  <2>6. Screen' = IF out[i] \in Switches THEN out[i] ELSE Screen
    BY <2>3, <1>8 DEF Screen, Switches
  <2>7. QED
    BY <2>5, <2>6
<1>9. ASSUME out[i] = "leave"
      PROVE  AltSound' /\ Screen' = IF out[i] \in Switches THEN out[i] ELSE Screen
  <2>1. ~alt'.in
    BY <1>1, <1>9 DEF Tracked, MainScreen
  <2>2. AltSound'
    BY <2>1, <1>1, <1>2, <1>7, <1>9 DEF AltSound
  <2>3. Screen' = IF out[i] \in Switches THEN out[i] ELSE Screen
    BY <2>1, <1>9 DEF Screen, Switches
  <2>4. QED
    BY <2>2, <2>3
<1>10. ASSUME out[i] \notin Switches
       PROVE  AltSound' /\ Screen' = IF out[i] \in Switches THEN out[i] ELSE Screen
  <2>1. alt' = alt
    BY <1>1, <1>10 DEF Tracked, Switches
  <2>2. Screen' = IF out[i] \in Switches THEN out[i] ELSE Screen
    BY <2>1, <1>10 DEF Screen
  <2>3. \A e \in 1 .. read : e \in 1 .. i
    BY <1>2
  <2>4. ASSUME NEW e \in 1 .. read, \A j \in e + 1 .. read : out[j] \notin Switches
        PROVE  \A j \in e + 1 .. i : out[j] \notin Switches
    <3>1. \A j \in e + 1 .. i : j = i \/ j \in e + 1 .. read
      BY <1>2
    <3>2. QED
      BY <3>1, <2>4, <1>10
  <2>5. ASSUME alt.in
        PROVE  \E e \in 1 .. i :
                 /\ out[e] = "enter" /\ \A j \in e + 1 .. i : out[j] \notin Switches
                 /\ alt.enter \in Nat /\ alt.enter < backlogAbs'
                 /\ IF alt.enter >= RingStart' THEN i - e = backlogAbs' - alt.enter - 1
                                               ELSE e <= Base'
    <3>1. PICK e \in 1 .. read :
                 /\ out[e] = "enter" /\ \A j \in e + 1 .. read : out[j] \notin Switches
                 /\ alt.enter \in Nat /\ alt.enter < backlogAbs
                 /\ IF alt.enter >= RingStart THEN read - e = backlogAbs - alt.enter - 1
                                              ELSE e <= Base
      BY <2>5 DEF ScreenInv, AltSound
    <3>2. e \in Nat /\ e >= 1 /\ e <= read
      BY <1>2
    <3> DEFINE a == alt.enter
    <3> HIDE DEF a
    <3>0. a \in Nat /\ a < backlogAbs /\ a = alt.enter
      BY <3>1 DEF a
    <3>00. read \in Nat /\ backlogAbs \in Nat /\ a \in Nat /\ e \in Nat
      BY <3>0, <3>2, <1>2
    <3>01. Base' \in Nat /\ RingStart' \in Int
      BY <1>2, <1>3
    <3>3. alt.enter < backlogAbs'
      BY <3>0, <1>2
    <3>4. IF alt.enter >= RingStart' THEN i - e = backlogAbs' - alt.enter - 1 ELSE e <= Base'
      <4>1. CASE passwordMode
        <5>1. RingStart' = backlogAbs /\ Base' = i
          BY <4>1, <1>2, <1>3
        <5>2. ~(alt.enter >= RingStart') /\ e <= Base'
          BY <5>1, <3>1, <3>2, <1>2
        <5>3. QED
          BY <5>2
      <4>2. CASE ~passwordMode
        <5>1. /\ backlogAbs' = backlogAbs + 1 /\ RingStart' >= RingStart
              /\ Base' - i = RingStart' - backlogAbs'
              /\ RingStart \in Int /\ RingStart' \in Int
          BY <4>2, <1>2, <1>3
        <5>2. CASE alt.enter >= RingStart'
          <6>1. alt.enter >= RingStart
            BY <5>1, <5>2, <3>1
          <6>2. read - e = backlogAbs - alt.enter - 1
            BY <6>1, <3>1
          <6>3. read - e = backlogAbs - a - 1
            BY <6>2, <3>0
          <6>4. i - e = backlogAbs' - a - 1
            <7>1. (read + 1) - e = (backlogAbs + 1) - a - 1
              BY <6>3, <3>00, OffsetMoves
            <7>2. QED
              BY <7>1, <5>1
          <6>5. QED
            BY <6>4, <5>2, <3>0
        <5>3. CASE ~(alt.enter >= RingStart')
          <6>1. CASE alt.enter >= RingStart
            <7>1. read - e = backlogAbs - a - 1
              BY <6>1, <3>0, <3>1
            <7>2. a + 1 <= RingStart'
              BY <5>1, <5>3, <3>0
            <7>3. e <= Base'
              <8>1. Base' - (read + 1) = RingStart' - (backlogAbs + 1)
                BY <5>1
              <8>2. QED
                BY <7>1, <7>2, <8>1, <3>00, <3>01, OffsetMoves
            <7>4. QED
              BY <7>3, <5>3
          <6>2. CASE ~(alt.enter >= RingStart)
            <7>1. e <= Base
              BY <6>2, <3>1
            <7>2. e <= Base'
              BY <7>1, <3>2, <1>2, <1>3
            <7>3. QED
              BY <7>2, <5>3
          <6>3. QED
            BY <6>1, <6>2
        <5>4. QED
          BY <5>2, <5>3
      <4>3. QED
        BY <4>1, <4>2
    <3>5. e \in 1 .. i /\ \A j \in e + 1 .. i : out[j] \notin Switches
      BY <3>1, <2>3, <2>4
    <3>6. QED
      BY <3>1, <3>3, <3>4, <3>5
  <2>6. ASSUME ~alt.in
        PROVE  \/ \A j \in 1 .. i : out[j] \notin Switches
               \/ \E e \in 1 .. i : out[e] = "leave" /\ \A j \in e + 1 .. i : out[j] \notin Switches
    <3>1. CASE \A j \in 1 .. read : out[j] \notin Switches
      BY <3>1, <1>6, <1>10
    <3>2. CASE \E e \in 1 .. read : out[e] = "leave" /\ \A j \in e + 1 .. read : out[j] \notin Switches
      <4>1. PICK e \in 1 .. read : out[e] = "leave" /\ \A j \in e + 1 .. read : out[j] \notin Switches
        BY <3>2
      <4>2. e \in 1 .. i /\ \A j \in e + 1 .. i : out[j] \notin Switches
        BY <4>1, <2>3, <2>4
      <4>3. QED
        BY <4>1, <4>2
    <3>3. QED
      BY <3>1, <3>2, <2>6 DEF ScreenInv, AltSound
  <2>7. AltSound'
    BY <2>1, <2>5, <2>6, <1>1, <1>2 DEF AltSound
  <2>8. QED
    BY <2>2, <2>7
<1>11. AltSound' /\ Screen' = IF out[i] \in Switches THEN out[i] ELSE Screen
  BY <1>8, <1>9, <1>10 DEF Switches
<1>12. ShowsScreen'
  <2>1. ShowsScreen
    BY DEF ScreenInv
  <2>2. QED
    BY <2>1, <1>4, <1>11, NextUnitShows
<1>13. QED
  BY <1>5, <1>11, <1>12 DEF ScreenInv
-----------------------------------------------------------------------------
(* The invariants hold *)

LEMMA InitSound == Init => IInv /\ ScreenInv
<1> SUFFICES ASSUME Init
             PROVE  IInv /\ ScreenInv
  OBVIOUS
<1>1. Len(out) = 0 /\ Len(ring) = 0 /\ RingCap \in Nat \ {0}
  BY OutputAssumption DEF Init
<1>2. alt \in [in : BOOLEAN, enter : Nat \union {None}] /\ ~alt.in
  BY DEF Init, MainScreen
<1>3. stream \in [Conns -> Seq(Item)] /\ head \in [Conns -> Nat] /\ out \in Seq(Kinds) /\ ring \in Seq(Nat)
  BY DEF Init
<1>4. Types
  <2>1. read \in 0 .. Len(out)
    BY <1>1 DEF Init
  <2>2. /\ hidden \in BOOLEAN /\ flips \in Nat /\ shell \in BOOLEAN /\ backlogAbs \in Nat
        /\ passwordMode \in BOOLEAN /\ sealed \in Nat /\ veiled \subseteq Nat
        /\ watching \subseteq Conns /\ attached \in BOOLEAN
        /\ phase \in {"run", "flush", "linger", "end"}
    BY DEF Init
  <2>3. QED
    BY <2>1, <2>2, <1>2, <1>3 DEF Types
<1>5. RingSound /\ PromptSound /\ StringsSound /\ EndSound /\ ViewerFed
  BY <1>1 DEF Init, RingSound, PromptSound, StringsSound, EndSound, ViewerFed, Base
<1>6. StreamsSound
  BY DEF Init, StreamsSound
<1>7. AltSound /\ QuietPrompt /\ ShowsScreen
  BY <1>1, <1>2 DEF Init, AltSound, QuietPrompt, ShowsScreen
<1>8. QED
  BY <1>4, <1>5, <1>6, <1>7 DEF IInv, ScreenInv

LEMMA NextSound ==
  IInv /\ [Next]_vars => IInv' /\ (~SwitchInPrompt /\ ScreenInv => ScreenInv')
<1> SUFFICES ASSUME IInv, [Next]_vars
             PROVE  IInv' /\ (~SwitchInPrompt /\ ScreenInv => ScreenInv')
  OBVIOUS
<1>1. /\ hidden \in BOOLEAN /\ flips \in Nat /\ shell \in BOOLEAN /\ attached \in BOOLEAN
      /\ phase \in {"run", "flush", "linger", "end"} /\ EndSound
  BY DEF IInv, Types
<1>2. ASSUME NEW kind \in Kinds, ShellWrites(kind)
      PROVE  IInv' /\ (~SwitchInPrompt /\ ScreenInv => ScreenInv')
  BY <1>2, ShellWritesKeeps
<1>3. CASE ShellFlipsEcho \/ ShellExits \/ ShellReaped \/ Flushed \/ GraceOver
  BY <1>3, QuietStepsKeep
<1>4. CASE PtyRead \/ FlushRemainingPtyOutput
  <2>1. ProcessPtyOutput /\ phase \in {"run", "flush"}
    BY <1>4 DEF PtyRead, FlushRemainingPtyOutput
  <2>2. QED
    BY <2>1, ProcessKeeps, ProcessShows
<1>5. CASE Tick
  <2>1. Poll(<<>>)
    BY <1>5 DEF Tick
  <2>2. QED
    BY <2>1, PollKeeps
<1>6. CASE QueuePtyWrite
  <2> DEFINE keys == IF hidden THEN <<Frame("secret")>> ELSE <<>>
  <2>1. Poll(keys) /\ (keys = <<>> \/ hidden)
    BY <1>6 DEF QueuePtyWrite
  <2> HIDE DEF keys
  <2>2. QED
    BY <2>1, PollKeeps
<1>7. CASE AcceptVtClient
  <2>1. /\ Accepted(Viewer) /\ UNCHANGED <<out, hidden, flips, shell, ringVars, promptVars, phase>>
        /\ attached' \in BOOLEAN
    BY <1>1, <1>7 DEF AcceptVtClient, shellVars
  <2>2. Viewer \in Conns
    BY DEF Conns
  <2>3. QED
    BY <2>1, <2>2, AcceptedKeeps
<1>8. ASSUME NEW c \in Observers, AcceptObserver(c)
      PROVE  IInv' /\ (~SwitchInPrompt /\ ScreenInv => ScreenInv')
  <2>1. /\ Accepted(c) /\ UNCHANGED <<out, hidden, flips, shell, ringVars, promptVars, phase>>
        /\ attached' \in BOOLEAN
    BY <1>1, <1>8 DEF AcceptObserver, shellVars
  <2>2. c \in Conns
    BY DEF Conns
  <2>3. QED
    BY <2>1, <2>2, AcceptedKeeps
<1>9. ASSUME NEW blocked \in BOOLEAN, SetShareBlocked(blocked)
      PROVE  IInv' /\ (~SwitchInPrompt /\ ScreenInv => ScreenInv')
  <2> DEFINE gone == IF blocked THEN Observers ELSE {}
  <2>1. /\ Closed(gone) /\ UNCHANGED <<out, hidden, flips, shell, ringVars, promptVars, phase>>
        /\ attached' \in BOOLEAN
    BY <1>1, <1>9 DEF SetShareBlocked, shellVars
  <2> HIDE DEF gone
  <2>2. QED
    BY <2>1, ClosedKeeps
<1>10. CASE ClientGone
  <2>1. /\ Closed({Viewer}) /\ UNCHANGED <<out, hidden, flips, shell, ringVars, promptVars, phase>>
        /\ attached' \in BOOLEAN
    BY <1>1, <1>10 DEF ClientGone, shellVars
  <2>2. QED
    BY <2>1, ClosedKeeps
<1>11. CASE UNCHANGED vars
  <2>1. /\ UNCHANGED <<out, podVars, hidden, flips, shell, read, passwordMode, phase>>
    BY <1>11 DEF vars, shellVars, podVars, ringVars, promptVars
  <2>2. EndSound' /\ (QuietPrompt => QuietPrompt')
    BY <2>1, <1>1 DEF EndSound, QuietPrompt
  <2>3. QED
    BY <2>1, <2>2, <1>1, QuietStepKeeps DEF ScreenInv
<1>12. QED
  BY <1>2, <1>3, <1>4, <1>5, <1>6, <1>7, <1>8, <1>9, <1>10, <1>11 DEF Next

\* Ring, prompts, strings, streams and the end of the shell are as the invariant
\* has them, whatever the shell writes and whoever comes, goes or fails.
THEOREM Sound == Spec => []IInv
<1>1. Init => IInv
  BY InitSound
<1>2. IInv /\ [Next]_vars => IInv'
  BY NextSound
<1>3. QED
  BY <1>1, <1>2, PTL DEF Spec
-----------------------------------------------------------------------------
(* What they are for *)

\* The ring, the connections and the main loop are what the code takes them for.
THEOREM TypeCorrect == Spec => []TypeOK
<1>1. IInv => TypeOK
  <2> SUFFICES ASSUME IInv
               PROVE  TypeOK
    OBVIOUS
  <2>1. /\ Len(ring) \in Nat /\ Base \in Nat /\ read = Base + Len(ring)
        /\ \A k \in 1 .. Len(ring) : ring[k] = Base + k
    BY RingFacts DEF IInv
  <2>2. ring \in [1 .. Len(ring) -> Nat]
    BY LenProperties DEF IInv, Types
  <2>3. \A k \in 1 .. Len(ring) : ring[k] \in 1 .. read
    BY <2>1
  <2>4. ring \in [1 .. Len(ring) -> 1 .. read]
    BY <2>2, <2>3
  <2>5. ring \in Seq(1 .. read)
    BY <2>1, <2>4, SeqOfFunction
  <2>6. alt.in \in BOOLEAN
    BY DEF IInv, Types
  <2>7. QED
    BY <2>5, <2>6 DEF IInv, Types, RingSound, StreamsSound, TypeOK
<1>2. QED
  BY <1>1, Sound, PTL

\* Nothing is missing from what the viewer is shown and nothing comes twice,
\* over replay and live stream, however often it attaches anew.
THEOREM ViewerIsFed == Spec => []ViewerSeesAll
<1>1. IInv => ViewerSeesAll
  <2> SUFFICES ASSUME IInv, Viewer \in watching
               PROVE  /\ Gapless(stream[Viewer], read)
                      /\ ring # <<>> /\ out[read] \notin {"line", "close"} =>
                           OutputsOf(stream[Viewer]) # {}
    BY DEF ViewerSeesAll, Outputs, OutputsOf, Gapless
  <2>1. QED
    BY DEF IInv, StreamsSound, StreamSound, ViewerFed
<1>2. QED
  BY <1>1, Sound, PTL

\* No replay begins inside a string whose beginning it could have had or which it
\* should have opened again.
THEOREM StringsAreWhole == Spec => []NoTornString
<1>1. IInv => NoTornString
  <2> SUFFICES ASSUME IInv, NEW c \in watching, Outputs(c) # {},
                      InString(stream[c][Min(Outputs(c))].at)
               PROVE  LET o == Opener(stream[c][Min(Outputs(c))].at)
                      IN o < head[c] \/ o \in veiled \/ Frame("reopen") \in ItemsOf(c)
    BY DEF NoTornString
  <2> DEFINE s == stream[c]
             k == Min(OutputsOf(s))
             f == s[k].at
  <2>1. Outputs(c) = OutputsOf(s)
    BY DEF Outputs, OutputsOf
  <2>2. StreamSound(c) /\ c \in Conns
    BY DEF IInv, StreamsSound, Types
  <2>3. Typed(s, read) /\ Whole(s, head[c], out, veiled, read) /\ s \in Seq(Item)
    BY <2>2 DEF StreamSound, Typed
  <2>4. OutputsOf(s) \subseteq Nat
    <3>1. DOMAIN s = 1 .. Len(s)
      BY <2>3, LenProperties
    <3>2. QED
      BY <3>1 DEF OutputsOf
  <2>5. k \in OutputsOf(s) /\ \A l \in OutputsOf(s) : k <= l
    BY <2>1, <2>4, MinFacts
  <2>6. MayBegin(s, head[c], out, veiled, f)
    BY <2>3, <2>5 DEF Whole
  <2>7. f \in Nat /\ f >= 1 /\ InString(f) /\ out \in Seq(Kinds)
    <3>1. f \in 1 .. read
      BY <2>3, <2>5 DEF Typed
    <3>2. QED
      BY <3>1, <2>1 DEF IInv, Types
  <2>8. f = stream[c][Min(Outputs(c))].at
    BY <2>1
  <2> HIDE DEF f, k
  <2>9. PICK j \in 1 .. f - 1 : LastMark(out, f, j) /\ out[j] = "open"
    BY <2>7, OpenerFacts
  <2>10. Opener(f) = j
    BY <2>7, <2>9, OpenerFacts
  <2>11. j < head[c] \/ j \in veiled \/ HasReopen(s)
    BY <2>6, <2>9 DEF MayBegin
  <2>12. HasReopen(s) => Frame("reopen") \in ItemsOf(c)
    BY DEF HasReopen, ItemsOf
  <2>13. QED
    BY <2>8, <2>10, <2>11, <2>12
<1>2. QED
  BY <1>1, Sound, PTL

\* What a password prompt hides is in no replay and reaches no observer.
THEOREM PromptsAreHidden == Spec => []PromptsStayHidden
<1>1. IInv => PromptsStayHidden
  <2> SUFFICES ASSUME IInv
               PROVE  PromptsStayHidden
    OBVIOUS
  <2>1. ASSUME NEW k \in DOMAIN ring
        PROVE  ring[k] > sealed
    <3>1. /\ Len(ring) \in Nat /\ Base \in Nat
          /\ \A i \in 1 .. Len(ring) : ring[i] = Base + i
      BY RingFacts DEF IInv
    <3>2. k \in 1 .. Len(ring) /\ sealed \in Nat /\ sealed <= Base
      BY LenProperties DEF IInv, Types, PromptSound
    <3>3. QED
      BY <3>1, <3>2
  <2>2. ASSUME NEW c \in watching \ {Viewer}
        PROVE  Frame("secret") \notin ItemsOf(c) /\ \A i \in veiled : Output(i) \notin ItemsOf(c)
    <3>1. Discreet(stream[c], veiled)
      BY DEF IInv, StreamsSound, StreamSound
    <3>2. QED
      BY <3>1 DEF Discreet, ItemsOf
  <2>3. QED
    BY <2>1, <2>2 DEF PromptsStayHidden
<1>2. QED
  BY <1>1, Sound, PTL

\* The pod reads the last of the output of its shell before it ends.
THEOREM LastWordsAreRead == Spec => []LastWordsPassedOn
<1>1. IInv => LastWordsPassedOn
  BY DEF IInv, EndSound, LastWordsPassedOn
<1>2. QED
  BY <1>1, Sound, PTL

LEMMA ScreenOfFacts ==
  ASSUME NEW kinds, NEW n \in Nat, DOMAIN kinds = 1 .. n
  PROVE  /\ \A i \in 1 .. n :
              kinds[i] \in Switches /\ (\A j \in 1 .. n : j > i => kinds[j] \notin Switches)
                => ScreenOf(kinds) = kinds[i]
         /\ (\A i \in 1 .. n : kinds[i] \notin Switches) => ScreenOf(kinds) = "leave"
<1> DEFINE S == {i \in DOMAIN kinds : kinds[i] \in Switches}
<1>1. S \subseteq 1 .. n
  OBVIOUS
<1>2. /\ S = {} => Last(S) = 0
      /\ S # {} => Last(S) \in S /\ \A y \in S : y <= Last(S)
  <2> HIDE DEF S
  <2>1. QED
    BY <1>1, LastFacts
<1>3. ScreenOf(kinds) = IF Last(S) = 0 THEN "leave" ELSE kinds[Last(S)]
  BY DEF ScreenOf
<1>4. ASSUME NEW i \in 1 .. n, kinds[i] \in Switches,
             \A j \in 1 .. n : j > i => kinds[j] \notin Switches
      PROVE  ScreenOf(kinds) = kinds[i]
  <2>1. i \in S /\ \A j \in S : ~(j > i)
    BY <1>4
  <2> HIDE DEF S
  <2>2. Last(S) \in 1 .. n /\ i <= Last(S) /\ ~(Last(S) > i)
    BY <1>1, <1>2, <2>1
  <2>3. Last(S) = i /\ i # 0
    BY <2>2
  <2>4. QED
    BY <2>3, <1>3
<1>5. (\A i \in 1 .. n : kinds[i] \notin Switches) => ScreenOf(kinds) = "leave"
  <2>1. (\A i \in 1 .. n : kinds[i] \notin Switches) => S = {}
    OBVIOUS
  <2> HIDE DEF S
  <2>2. QED
    BY <2>1, <1>2, <1>3
<1>6. QED
  BY <1>4, <1>5

\* The screen a stream ends on, and that of the program, are what the tracker says.
LEMMA ScreenBridge == IInv /\ ScreenInv => ScreenAgrees
<1> SUFFICES ASSUME IInv, ScreenInv, NEW c \in watching
             PROVE  ScreenOf(KindsSent(c)) = ScreenOf(SubSeq(out, 1, read))
  BY DEF ScreenAgrees
<1>1. ScreenOf(KindsSent(c)) = Screen
  <2> DEFINE s == stream[c]
             n == Len(s)
             kinds == KindsSent(c)
  <2>1. s \in Seq(Item) /\ n \in Nat /\ DOMAIN s = 1 .. n
    BY LenProperties DEF IInv, Types
  <2>2. DOMAIN kinds = 1 .. n /\ \A k \in 1 .. n : kinds[k] = KindAt(s, out, k)
    BY <2>1 DEF KindsSent, KindAt
  <2>3. Shows(s, out, Screen)
    BY DEF ScreenInv, ShowsScreen
  <2> HIDE DEF n, kinds, s
  <2>4. CASE \E i \in DOMAIN s : /\ KindAt(s, out, i) = Screen /\ Screen \in Switches
                                 /\ \A j \in DOMAIN s : j > i => KindAt(s, out, j) \notin Switches
    <3>1. PICK i \in 1 .. n : /\ kinds[i] = Screen /\ kinds[i] \in Switches
                              /\ \A j \in 1 .. n : j > i => kinds[j] \notin Switches
      BY <2>1, <2>2, <2>4
    <3>2. QED
      BY <3>1, <2>1, <2>2, ScreenOfFacts DEF kinds
  <2>5. CASE Screen = "leave" /\ \A i \in DOMAIN s : KindAt(s, out, i) \notin Switches
    BY <2>1, <2>2, <2>5, ScreenOfFacts DEF kinds
  <2>6. QED
    BY <2>3, <2>4, <2>5 DEF Shows
<1>2. ScreenOf(SubSeq(out, 1, read)) = Screen
  <2> DEFINE kinds == SubSeq(out, 1, read)
  <2>1. read \in Nat /\ read <= Len(out) /\ out \in Seq(Kinds) /\ Len(out) \in Nat
    BY LenProperties DEF IInv, Types
  <2>2. DOMAIN kinds = 1 .. read /\ \A k \in 1 .. read : kinds[k] = out[k]
    <3>1. /\ kinds \in Seq(Kinds) /\ Len(kinds) = IF 1 <= read THEN read - 1 + 1 ELSE 0
          /\ \A k \in 1 .. read - 1 + 1 : kinds[k] = out[1 + k - 1]
      BY <2>1, SubSeqProperties
    <3>2. Len(kinds) = read
      BY <3>1, <2>1
    <3>3. DOMAIN kinds = 1 .. Len(kinds)
      BY <3>1, LenProperties
    <3> HIDE DEF kinds
    <3>4. QED
      BY <3>1, <3>2, <3>3, <2>1
  <2> HIDE DEF kinds
  <2>3. ASSUME NEW e \in 1 .. read, out[e] \in Switches,
               \A j \in e + 1 .. read : out[j] \notin Switches
        PROVE  ScreenOf(kinds) = out[e]
    <3>1. \A j \in 1 .. read : j > e => j \in e + 1 .. read
      BY <2>1
    <3>2. kinds[e] \in Switches /\ \A j \in 1 .. read : j > e => kinds[j] \notin Switches
      BY <3>1, <2>2, <2>3
    <3>3. QED
      BY <3>2, <2>1, <2>2, ScreenOfFacts
  <2>4. (\A j \in 1 .. read : out[j] \notin Switches) => ScreenOf(kinds) = "leave"
    BY <2>1, <2>2, ScreenOfFacts
  <2>5. CASE alt.in
    <3>1. PICK e \in 1 .. read : out[e] = "enter" /\ \A j \in e + 1 .. read : out[j] \notin Switches
      BY <2>5 DEF ScreenInv, AltSound
    <3>2. ScreenOf(kinds) = "enter"
      BY <3>1, <2>3 DEF Switches
    <3>3. QED
      BY <3>2, <2>5 DEF Screen, kinds
  <2>6. CASE ~alt.in
    <3>1. ScreenOf(kinds) = "leave"
      BY <2>3, <2>4, <2>6 DEF ScreenInv, AltSound, Switches
    <3>2. QED
      BY <3>1, <2>6 DEF Screen, kinds
  <2>7. QED
    BY <2>5, <2>6
<1>3. QED
  BY <1>1, <1>2

\* Programs that ask for passwords do so without switching screens.
NoSwitchInPrompt == ~SwitchInPrompt

\* A terminal that is shown the replay and what follows is on the screen the
\* program is on, if the screen is never switched during a password prompt.
THEOREM ScreensAgree == NoSwitchInPrompt => (Spec => []ScreenAgrees)
<1> SUFFICES ASSUME NoSwitchInPrompt
             PROVE  Spec => []ScreenAgrees
  OBVIOUS
<1>1. Init => IInv /\ ScreenInv
  BY InitSound
<1>2. IInv /\ ScreenInv /\ [Next]_vars => (IInv /\ ScreenInv)'
  BY NextSound DEF NoSwitchInPrompt
<1>3. IInv /\ ScreenInv => ScreenAgrees
  BY ScreenBridge
<1>4. QED
  BY <1>1, <1>2, <1>3, PTL DEF Spec
=============================================================================
