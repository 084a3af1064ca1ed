---------------------------- MODULE TailerProofs ----------------------------
(***************************************************************************)
(* The cursor of the tailer passes no line that was not handed over        *)
(* (CursorSkipsNothing), and while nothing fails the lines reach on_line   *)
(* whole, once and in the order of the file (HandedOnceInOrder), for any   *)
(* number of messages, halves, log lines, exceptions, deaths and edits.    *)
(***************************************************************************)
EXTENDS Tailer, WellFoundedInduction, TLAPS

Pieces == {NL, LOG} \cup {HeadOf(m) : m \in Msgs} \cup {TailOf(m) : m \in Msgs}
Bare(x) == x \notin {NL, LOG}

\* The place of a bare piece in writing order, and that of the next one to be written.
Key(x)  == IF x[1] = "head" THEN 2 * x[2] ELSE 2 * x[2] + 1
NextKey == IF half = 0 THEN 2 * (Len(written) + 1) ELSE 2 * half + 1

\* What on_line gets: never a bare head with its newline, which is half a line.
Lines == {s \in Seq(Pieces) : s # <<>> /\ Bare(s[1]) /\ \A m \in Msgs : s # <<HeadOf(m)>>}

-----------------------------------------------------------------------------
(* The inductive invariant.                                                *)

TailerTypeOK ==
  /\ dir \in BOOLEAN /\ owned \in BOOLEAN /\ up \in BOOLEAN
  /\ woken \in BOOLEAN /\ dirEvent \in BOOLEAN
  /\ file \in Seq(Pieces)
  /\ saved \in Nat \cup {Unseen} /\ cursor \in Nat \cup {Unseen}
  /\ lock \in Workers \cup {"free"}
  /\ todo \in [Workers -> SUBSET (Nat \X Lines)] /\ upto \in [Workers -> Nat]
  /\ written \in Seq(Msgs) /\ owed \subseteq Msgs /\ half \in Msgs \cup {0}
  /\ handed \in Seq(Lines)
  /\ faults \in Nat /\ crashes \in Nat /\ edits \in Nat

\* A line is a head and its tail, with log lines between them if it was written in two
\* halves; what the PAI will write next belongs behind the end of the file.
FileShape ==
  /\ \A p \in DOMAIN file, m \in Msgs : file[p] = HeadOf(m) =>
       /\ p > 1 => file[p - 1] = NL
       /\ p < Len(file) => file[p + 1] # NL
  /\ \A p \in DOMAIN file, m \in Msgs : file[p] = TailOf(m) =>
       p > 1 /\ file[p - 1] \in {HeadOf(m), NL} /\ m <= Len(written)
  /\ half # 0 => half = Len(written) + 1 /\ file # <<>>
  /\ file # <<>> => file[Len(file)] \in {NL} \cup (IF half = 0 THEN {} ELSE {HeadOf(half)})

\* The pieces of the file, and all that was read from it, in writing order.
FileOrder ==
  /\ \A p, q \in DOMAIN file :
       p < q /\ Bare(file[p]) /\ Bare(file[q]) => Key(file[p]) < Key(file[q])
  /\ \A p \in DOMAIN file : Bare(file[p]) => Key(file[p]) < NextKey
  /\ \A w \in Workers : \A l \in todo[w] : Key(l[2][1]) < NextKey
  /\ \A k \in DOMAIN handed : Key(handed[k][1]) < NextKey

\* Only the task with the lock has a chunk, which begins at the cursor.
OneChunk ==
  /\ \A w \in Workers : upto[w] > 0 => lock = w /\ up /\ cursor < upto[w]
  /\ \A w \in Workers : todo[w] # {} => upto[w] > 0

\* Up to the cursor everything is handed over, and in a chunk that is not done, all but
\* what the task has yet to hand over.
NothingSkipped ==
  crashes = 0 /\ edits = 0 =>
    /\ ~up => owed = {} /\ saved <= Len(file)
    /\ cursor <= Len(file)
    /\ \A w \in Workers : upto[w] <= Len(file)
    /\ \A p \in DOMAIN file, m \in owed : file[p] = TailOf(m) /\ p <= cursor => Reached(m)
    /\ \A w \in Workers, p \in DOMAIN file, m \in Msgs :
         file[p] = TailOf(m) /\ cursor < p /\ p <= upto[w] =>
           Reached(m) \/ \E l \in todo[w] : TailOf(m) \in Range(l[2])

Before(s, x) == Key(s[1]) < Key(x)

\* What was handed over comes before what the tasks hold, and that before what stands
\* behind the cursor or the chunk.
InOrder ==
  faults = 0 /\ crashes = 0 =>
    /\ ~up => cursor = Unseen /\ saved = Unseen
    /\ \A j, k \in DOMAIN handed : j < k => Before(handed[j], handed[k][1])
    /\ \A w \in Workers : \A l \in todo[w] :
         /\ \A k \in DOMAIN handed : Before(handed[k], l[2][1])
         /\ \A n \in todo[w] : l # n => l[1] # n[1] /\ (l[1] < n[1] => Before(l[2], n[2][1]))
    /\ \A p \in DOMAIN file :
         /\ Bare(file[p]) /\ p > cursor
         /\ \A w \in Workers : p > upto[w]
         => /\ \A k \in DOMAIN handed : Before(handed[k], file[p])
            /\ \A w \in Workers : \A l \in todo[w] : Before(l[2], file[p])

TailerInv == TailerTypeOK /\ FileShape /\ FileOrder /\ OneChunk /\ NothingSkipped /\ InOrder

-----------------------------------------------------------------------------
(* Pieces and lines.                                                       *)

LEMMA HasLeast == ASSUME NEW T, T \subseteq Nat, T # {} PROVE \E x \in T : \A y \in T : x <= y
<1> DEFINE R == OpToRel(<, Nat)
<1>1. PICK x \in T : \A y \in T : ~(<<y, x>> \in R)
  <2>1. IsWellFoundedOn(R, Nat)
    BY NatLessThanWellFounded
  <2> HIDE DEF R
  <2> QED
    BY <2>1, WFMin
<1>2. \A a, b \in Nat : a < b => <<a, b>> \in R
  BY DEF OpToRel
<1>3. ASSUME NEW y \in T PROVE x <= y
  <2> HIDE DEF R
  <2>1. ~(<<y, x>> \in R) /\ x \in Nat /\ y \in Nat
    BY <1>1
  <2> QED
    BY <2>1, <1>2
<1> QED
  BY <1>3

\* The four kinds of pieces.
LEMMA PieceFacts ==
  /\ NL # LOG /\ ~Bare(NL) /\ ~Bare(LOG) /\ {NL, LOG} \subseteq Pieces
  /\ \A m \in Msgs : /\ {HeadOf(m), TailOf(m)} \subseteq Pieces
                     /\ Bare(HeadOf(m)) /\ Key(HeadOf(m)) = 2 * m
                     /\ Bare(TailOf(m)) /\ Key(TailOf(m)) = 2 * m + 1
                     /\ \A n \in Msgs : /\ HeadOf(m) # TailOf(n)
                                        /\ HeadOf(m) = HeadOf(n) => m = n
                                        /\ TailOf(m) = TailOf(n) => m = n
  /\ \A x \in Pieces : Bare(x) => /\ Key(x) \in Nat
                                  /\ \E m \in Msgs : x = HeadOf(m) \/ x = TailOf(m)
<1>1. Msgs \subseteq Nat \ {0}
  BY TailerAssumption DEF TailerAssumption
<1>2. \A m \in Msgs : /\ {HeadOf(m), TailOf(m)} \subseteq Pieces
                      /\ Bare(HeadOf(m)) /\ Bare(TailOf(m))
                      /\ \A n \in Msgs : /\ HeadOf(m) # TailOf(n)
                                         /\ HeadOf(m) = HeadOf(n) => m = n
                                         /\ TailOf(m) = TailOf(n) => m = n
  BY DEF Pieces, Bare, NL, LOG, HeadOf, TailOf
<1>3. \A m \in Msgs : Key(HeadOf(m)) = 2 * m /\ Key(TailOf(m)) = 2 * m + 1
  BY <1>1 DEF Key, HeadOf, TailOf
<1>4. \A x \in Pieces : Bare(x) => \E m \in Msgs : x = HeadOf(m) \/ x = TailOf(m)
  BY DEF Pieces, Bare
<1>5. \A x \in Pieces : Bare(x) => Key(x) \in Nat
  <2>1. \A m \in Msgs : 2 * m \in Nat /\ 2 * m + 1 \in Nat
    BY <1>1
  <2> QED
    BY <1>3, <1>4, <2>1
<1>6. NL # LOG /\ ~Bare(NL) /\ ~Bare(LOG) /\ {NL, LOG} \subseteq Pieces
  BY DEF Pieces, Bare, NL, LOG
<1> QED
  BY <1>2, <1>3, <1>4, <1>5, <1>6

\* The last newline is one, if there is any.
LEMMA LastNewlineIs ==
  ASSUME file \in Seq(Pieces), NEW from \in Nat, LastNewline(from) # from
  PROVE  LastNewline(from) \in (from + 1)..Len(file) /\ file[LastNewline(from)] = NL
<1> DEFINE S == {p \in (from + 1)..Len(file) : file[p] = NL}
           T == {Len(file) - p : p \in S}
<1>1. S # {} /\ Len(file) \in Nat
  BY DEF LastNewline
<1>2. T # {}
  BY <1>1
<1>3. T \subseteq Nat
  BY <1>1
<1>4. PICK x \in T : \A y \in T : x <= y
  <2> HIDE DEF T
  <2> QED
    BY <1>2, <1>3, HasLeast
<1>5. PICK p \in S : x = Len(file) - p
  OBVIOUS
<1>6. ASSUME NEW q \in (p + 1)..Len(file) PROVE file[q] # NL
  <2>1. SUFFICES ASSUME file[q] = NL PROVE FALSE
    OBVIOUS
  <2>2. q \in S /\ p \in Int /\ q \in Int /\ p < q
    BY <1>1, <2>1
  <2>3. Len(file) - q \in T
    BY <2>2
  <2>4. Len(file) - p <= Len(file) - q
    BY <1>4, <1>5, <2>3
  <2> QED
    BY <1>1, <2>2, <2>4
<1>7. \E r \in (from + 1)..Len(file) :
        file[r] = NL /\ \A q \in (r + 1)..Len(file) : file[q] # NL
  BY <1>5, <1>6
<1>8. \E r \in (from + 1)..Len(file) : file[r] = NL
  BY <1>5
<1> QED
  BY <1>7, <1>8 DEF LastNewline

\* A line ends in a newline, before or at the end of its chunk.
LEMMA LineEndIs ==
  ASSUME file \in Seq(Pieces), NEW p \in DOMAIN file, NEW to \in p..Len(file), file[to] = NL
  PROVE  LineEnd(p) \in p..to /\ file[LineEnd(p)] = NL
<1> DEFINE S == {Len(file) + 1} \cup {e \in p..Len(file) : file[e] = NL}
<1>1. S \subseteq Nat /\ to \in S
  <2>1. \A e \in p..Len(file) : e \in Nat
    OBVIOUS
  <2>2. Len(file) + 1 \in Nat
    OBVIOUS
  <2> QED
    BY <2>1, <2>2
<1>2. PICK x \in S : \A y \in S : x <= y
  <2> HIDE DEF S
  <2> QED
    BY <1>1, HasLeast
<1>3. LineEnd(p) = CHOOSE z \in S : \A y \in S : z <= y
  BY DEF LineEnd, Min
<1>4. LineEnd(p) \in S /\ \A y \in S : LineEnd(p) <= y
  <2> HIDE DEF S
  <2> QED
    BY <1>2, <1>3
<1>5. LineEnd(p) <= to
  BY <1>1, <1>4
<1>6. LineEnd(p) # Len(file) + 1
  BY <1>5
<1> QED
  BY <1>4, <1>5, <1>6

\* What BareLines reads from a chunk: lines that begin at different places of the chunk,
\* and no end of a message is left out.
LEMMA ChunkLines ==
  ASSUME file \in Seq(Pieces), FileShape, NEW from \in Nat,
         NEW to \in (from + 1)..Len(file), file[to] = NL
  PROVE  /\ \A l \in BareLines(from, to) : /\ l \in Nat \X Lines
                                           /\ l[1] \in (from + 1)..to
                                           /\ l[2][1] = file[l[1]]
                                           /\ \A n \in BareLines(from, to) : l # n => l[1] # n[1]
         /\ \A p \in (from + 1)..to, m \in Msgs : file[p] = TailOf(m) =>
              \E l \in BareLines(from, to) : TailOf(m) \in Range(l[2])
<1> DEFINE Text(p) == SubSeq(file, p, LineEnd(p) - 1)
<1>1. ASSUME NEW p \in (from + 1)..to, Bare(file[p])
      PROVE  /\ p \in DOMAIN file /\ LineEnd(p) \in (p + 1)..to /\ file[LineEnd(p)] = NL
             /\ Text(p) \in Seq(Pieces) /\ Len(Text(p)) = LineEnd(p) - p
             /\ \A i \in 1..(LineEnd(p) - p) : Text(p)[i] = file[p + i - 1]
  <2>1. p \in DOMAIN file /\ to \in p..Len(file) /\ p \in Nat
    OBVIOUS
  <2>2. LineEnd(p) \in p..to /\ file[LineEnd(p)] = NL
    BY <2>1, LineEndIs
  <2>3. LineEnd(p) # p
    BY <1>1, <2>2, PieceFacts
  <2>4. LineEnd(p) \in (p + 1)..to /\ LineEnd(p) \in Nat
    BY <2>1, <2>2, <2>3
  <2> HIDE DEF Text
  <2>5. \A i \in p..(LineEnd(p) - 1) : i \in DOMAIN file
    BY <2>1, <2>4
  <2>6. Text(p) \in Seq(Pieces) /\ Len(Text(p)) = LineEnd(p) - p
    BY <2>1, <2>4, <2>5 DEF Text
  <2>7. \A i \in 1..(LineEnd(p) - p) : Text(p)[i] = file[p + i - 1]
    BY <2>1, <2>4 DEF Text
  <2> QED
    BY <2>1, <2>2, <2>4, <2>6, <2>7
<1>2. ASSUME NEW p \in (from + 1)..to, Bare(file[p])
      PROVE  Text(p) \in Lines /\ Text(p)[1] = file[p]
  <2> HIDE DEF Text
  <2>1. p \in Nat /\ LineEnd(p) \in Nat /\ LineEnd(p) - p >= 1 /\ p + 1 - 1 = p
    BY <1>1, <1>2
  <2>2. 1 \in 1..(LineEnd(p) - p)
    BY <2>1
  <2>3. Text(p)[1] = file[p]
    BY <1>1, <1>2, <2>1, <2>2
  <2>4. ASSUME NEW m \in Msgs, Text(p) = <<HeadOf(m)>> PROVE FALSE
    <3>1. Len(Text(p)) = 1 /\ Text(p)[1] = HeadOf(m)
      BY <2>4
    <3>2. LineEnd(p) = p + 1
      <4>1. LineEnd(p) - p = 1
        BY <1>1, <1>2, <3>1
      <4> QED
        BY <2>1, <4>1
    <3>3. p \in DOMAIN file /\ LineEnd(p) \in (p + 1)..to /\ file[LineEnd(p)] = NL
      BY <1>1, <1>2
    <3>4. p < Len(file) /\ file[p + 1] = NL
      BY <2>1, <3>2, <3>3
    <3> QED
      BY <2>3, <3>1, <3>3, <3>4 DEF FileShape
  <2>5. Text(p) # <<>>
    BY <1>1, <1>2, <2>1
  <2> QED
    BY <1>1, <1>2, <2>3, <2>4, <2>5 DEF Lines
<1>3. \A l \in BareLines(from, to) : \E p \in (from + 1)..to : Bare(file[p]) /\ l = <<p, Text(p)>>
  BY DEF BareLines, IsBare, Bare
<1>4. \A p \in (from + 1)..to : Bare(file[p]) /\ IsStart(p, from) => <<p, Text(p)>> \in BareLines(from, to)
  BY DEF BareLines, IsBare, Bare
<1>5. ASSUME NEW p \in (from + 1)..to, NEW m \in Msgs, file[p] = TailOf(m)
      PROVE  \E l \in BareLines(from, to) : TailOf(m) \in Range(l[2])
  <2>1. p \in DOMAIN file /\ p \in Nat /\ Bare(file[p])
    BY <1>5, PieceFacts
  <2>2. file[p - 1] = NL \/ file[p - 1] = HeadOf(m)
    BY <1>5, <2>1 DEF FileShape
  <2>3. CASE IsStart(p, from)
    <3>1. <<p, Text(p)>> \in BareLines(from, to)
      BY <1>4, <2>1, <2>3
    <3>2. Len(Text(p)) >= 1 /\ Text(p)[1] = TailOf(m)
      <4> HIDE DEF Text
      <4>1. LineEnd(p) - p >= 1
        BY <1>1, <2>1
      <4> QED
        BY <1>1, <1>2, <1>5, <2>1, <4>1
    <3>3. TailOf(m) \in Range(Text(p))
      <4> HIDE DEF Text
      <4>1. 1 \in DOMAIN Text(p)
        BY <1>1, <2>1, <3>2
      <4> QED
        BY <3>2, <4>1 DEF Range
    <3> QED
      BY <3>1, <3>3
  <2>4. CASE ~IsStart(p, from)
    <3> DEFINE q == p - 1
    <3>1. q \in (from + 1)..to /\ file[q] = HeadOf(m) /\ q \in DOMAIN file /\ q + 1 = p
      <4>1. p # from + 1
        BY <2>4 DEF IsStart
      <4>2. file[p - 1] # NL
        BY <2>4 DEF IsStart
      <4> QED
        BY <2>1, <2>2, <4>1, <4>2
    <3>2. Bare(file[q])
      BY <3>1, PieceFacts
    <3>3. IsStart(q, from)
      <4>1. q = 1 \/ file[q - 1] = NL
        <5>1. q > 1 => file[q - 1] = NL
          BY <3>1 DEF FileShape
        <5> QED
          BY <3>1, <5>1
      <4> QED
        BY <3>1, <4>1 DEF IsStart
    <3>4. <<q, Text(q)>> \in BareLines(from, to)
      BY <1>4, <3>1, <3>2, <3>3
    <3>5. 2 \in DOMAIN Text(q) /\ Text(q)[2] = TailOf(m)
      <4>1. LineEnd(q) \in (q + 1)..to /\ file[LineEnd(q)] = NL
        BY <1>1, <3>1, <3>2
      <4>2. LineEnd(q) # q + 1
        BY <1>5, <3>1, <4>1, PieceFacts
      <4>3. LineEnd(q) - q >= 2 /\ LineEnd(q) \in Nat /\ q \in Nat /\ q + 2 - 1 = p
        BY <3>1, <4>1, <4>2
      <4> HIDE DEF Text, q
      <4>4. Text(q) \in Seq(Pieces) /\ Len(Text(q)) = LineEnd(q) - q /\ Text(q)[2] = file[q + 2 - 1]
        BY <1>1, <3>1, <3>2, <4>3
      <4> QED
        BY <1>5, <4>3, <4>4
    <3>6. TailOf(m) \in Range(Text(q))
      <4> HIDE DEF Text, q
      <4> QED
        BY <3>5 DEF Range
    <3> QED
      BY <3>4, <3>6
  <2> QED
    BY <2>3, <2>4
<1>6. ASSUME NEW l \in BareLines(from, to)
      PROVE  /\ l \in Nat \X Lines
             /\ l[1] \in (from + 1)..to
             /\ l[2][1] = file[l[1]]
             /\ \A n \in BareLines(from, to) : l # n => l[1] # n[1]
  <2>1. PICK p \in (from + 1)..to : Bare(file[p]) /\ l = <<p, Text(p)>>
    BY <1>3
  <2>2. Text(p) \in Lines /\ Text(p)[1] = file[p] /\ p \in Nat
    <3> HIDE DEF Text
    <3> QED
      BY <1>2, <2>1
  <2>3. ASSUME NEW n \in BareLines(from, to), l[1] = n[1] PROVE l = n
    <3>1. PICK q \in (from + 1)..to : n = <<q, Text(q)>>
      BY <1>3
    <3> QED
      BY <2>1, <2>3, <3>1
  <2> HIDE DEF Text
  <2> QED
    BY <2>1, <2>2, <2>3
<1> QED
  BY <1>5, <1>6

-----------------------------------------------------------------------------
(* The file grows.                                                         *)

\* What every writer keeps: the old pieces stay where they are, and the new ones follow
\* in writing order.
Grown ==
  /\ Len(file) <= Len(file') /\ \A p \in DOMAIN file : file'[p] = file[p]
  /\ \A p \in DOMAIN file' \ DOMAIN file :
       /\ Bare(file'[p]) => NextKey <= Key(file'[p]) /\ Key(file'[p]) < NextKey'
       /\ \A q \in DOMAIN file' \ DOMAIN file :
            p < q /\ Bare(file'[p]) /\ Bare(file'[q]) => Key(file'[p]) < Key(file'[q])
       /\ \A m \in Msgs : file'[p] = TailOf(m) => m > Len(written)
  /\ NextKey <= NextKey' /\ NextKey' \in Nat

LEMMA Appended ==
  ASSUME NEW f \in Seq(Pieces), NEW s \in Seq(Pieces)
  PROVE  /\ f \o s \in Seq(Pieces) /\ Len(f \o s) = Len(f) + Len(s)
         /\ \A p \in DOMAIN f : (f \o s)[p] = f[p]
         /\ \A i \in 1..Len(s) : (f \o s)[Len(f) + i] = s[i]
OBVIOUS

LEMMA NextKeyIs ==
  ASSUME TailerTypeOK
  PROVE  /\ Len(written) \in Nat /\ half \in Nat /\ NextKey \in Nat
         /\ half = 0 => NextKey = 2 * Len(written) + 2
         /\ half # 0 => NextKey = 2 * half + 1
<1>1. Len(written) \in Nat /\ half \in Nat
  BY TailerAssumption DEF TailerTypeOK, TailerAssumption
<1> QED
  BY <1>1 DEF NextKey

\* A log line, also in the middle of a message.
LEMMA LogGrows ==
  ASSUME TailerTypeOK, FileShape, file' = file \o <<LOG, NL>>, UNCHANGED <<written, half>>
  PROVE  file' \in Seq(Pieces) /\ FileShape' /\ Grown
<1> DEFINE s == <<LOG, NL>>
           n == Len(file)
<1>1. s \in Seq(Pieces) /\ Len(s) = 2 /\ s[1] = LOG /\ s[2] = NL
  BY PieceFacts
<1>2. /\ file \in Seq(Pieces) /\ n \in Nat
      /\ file' \in Seq(Pieces) /\ Len(file') = n + 2
      /\ \A p \in DOMAIN file : file'[p] = file[p]
      /\ file'[n + 1] = LOG /\ file'[n + 2] = NL
  <2>1. file \in Seq(Pieces)
    BY DEF TailerTypeOK
  <2> HIDE DEF s
  <2> QED
    BY <1>1, <2>1, Appended DEF s
<1>3. /\ \A p \in DOMAIN file' : p \in DOMAIN file \/ p = n + 1 \/ p = n + 2
      /\ \A m \in Msgs : HeadOf(m) \notin {NL, LOG} /\ TailOf(m) \notin {NL, LOG}
      /\ NL # LOG
  BY <1>2, PieceFacts DEF Bare
<1> HIDE DEF s, n
<1>4. ASSUME NEW p \in DOMAIN file', NEW m \in Msgs, file'[p] = HeadOf(m)
      PROVE  /\ p > 1 => file'[p - 1] = NL
             /\ p < Len(file') => file'[p + 1] # NL
  <2>1. p \in DOMAIN file /\ file[p] = HeadOf(m)
    BY <1>2, <1>3, <1>4
  <2>2. CASE p = n
    <3>1. p > 1 => file'[p - 1] = NL
      BY <1>2, <2>1 DEF FileShape, n
    <3> QED
      BY <1>2, <1>3, <2>2, <3>1
  <2>3. CASE p < n
    BY <1>2, <2>1, <2>3 DEF FileShape, n
  <2> QED
    BY <1>2, <2>1, <2>2, <2>3 DEF n
<1>5. ASSUME NEW p \in DOMAIN file', NEW m \in Msgs, file'[p] = TailOf(m)
      PROVE  p > 1 /\ file'[p - 1] \in {HeadOf(m), NL} /\ m <= Len(written)'
  <2>1. p \in DOMAIN file /\ file[p] = TailOf(m)
    BY <1>2, <1>3, <1>5
  <2>2. p > 1 /\ p - 1 \in DOMAIN file
    BY <1>2, <2>1 DEF FileShape
  <2> QED
    BY <1>2, <2>1, <2>2 DEF FileShape
<1>6. FileShape'
  <2>1. half' # 0 => half' = Len(written)' + 1 /\ file' # <<>>
    BY <1>2 DEF FileShape
  <2>2. file'[Len(file')] = NL
    BY <1>2
  <2> QED
    BY <1>4, <1>5, <2>1, <2>2 DEF FileShape
<1>7. \A p \in DOMAIN file' \ DOMAIN file : ~Bare(file'[p])
  BY <1>2, <1>3, PieceFacts
<1>8. Grown
  <2>1. NextKey' = NextKey /\ NextKey \in Nat
    BY NextKeyIs DEF NextKey
  <2>2. \A m \in Msgs : Bare(TailOf(m))
    BY PieceFacts
  <2>3. Len(file) <= Len(file')
    BY <1>2 DEF n
  <2> QED
    BY <1>2, <1>7, <2>1, <2>2, <2>3 DEF Grown
<1> QED
  BY <1>2, <1>6, <1>8

\* A line in one write.
LEMMA LineGrows ==
  ASSUME TailerTypeOK, FileShape, NEW m \in Msgs, m = Len(written) + 1, half = 0,
         file' = file \o (Whole(m) \o <<NL>>), written' = Append(written, m), half' = half
  PROVE  file' \in Seq(Pieces) /\ FileShape' /\ Grown
<1> DEFINE s == Whole(m) \o <<NL>>
           n == Len(file)
<1>1. s \in Seq(Pieces) /\ Len(s) = 3 /\ s[1] = HeadOf(m) /\ s[2] = TailOf(m) /\ s[3] = NL
  BY PieceFacts DEF Whole
<1>2. /\ file \in Seq(Pieces) /\ n \in Nat
      /\ file' \in Seq(Pieces) /\ Len(file') = n + 3
      /\ \A p \in DOMAIN file : file'[p] = file[p]
      /\ file'[n + 1] = HeadOf(m) /\ file'[n + 2] = TailOf(m) /\ file'[n + 3] = NL
  <2>1. file \in Seq(Pieces)
    BY DEF TailerTypeOK
  <2> HIDE DEF s
  <2> QED
    BY <1>1, <2>1, Appended DEF s
<1>3. /\ \A p \in DOMAIN file' : p \in DOMAIN file \/ p = n + 1 \/ p = n + 2 \/ p = n + 3
      /\ \A k, l \in Msgs : HeadOf(k) # NL /\ TailOf(k) # NL /\ HeadOf(k) # TailOf(l)
      /\ \A k \in Msgs : /\ HeadOf(m) = HeadOf(k) => k = m
                         /\ TailOf(m) = TailOf(k) => k = m
  <2>1. \A p \in DOMAIN file' : p \in DOMAIN file \/ p = n + 1 \/ p = n + 2 \/ p = n + 3
    BY <1>2
  <2> QED
    BY <2>1, PieceFacts
<1> HIDE DEF s, n
<1>4. n > 0 => file'[n] = NL
  BY <1>2 DEF FileShape, n
<1>5. ASSUME NEW p \in DOMAIN file', NEW k \in Msgs, file'[p] = HeadOf(k)
      PROVE  /\ p > 1 => file'[p - 1] = NL
             /\ p < Len(file') => file'[p + 1] # NL
  <2>1. CASE p \in DOMAIN file
    <3>1. p # n
      BY <1>2, <1>3, <1>4, <1>5, <2>1 DEF n
    <3> QED
      BY <1>2, <1>5, <2>1, <3>1 DEF FileShape, n
  <2>2. CASE p = n + 1
    BY <1>2, <1>3, <1>4, <2>2
  <2> QED
    BY <1>2, <1>3, <1>5, <2>1, <2>2
<1>6. Len(written)' = Len(written) + 1 /\ Len(written) \in Nat /\ m \in Nat /\ NextKey \in Nat
  BY NextKeyIs DEF TailerTypeOK
<1>7. ASSUME NEW p \in DOMAIN file', NEW k \in Msgs, file'[p] = TailOf(k)
      PROVE  p > 1 /\ file'[p - 1] \in {HeadOf(k), NL} /\ k <= Len(written)'
  <2>1. CASE p \in DOMAIN file
    <3>1. p > 1 /\ file[p - 1] \in {HeadOf(k), NL} /\ k <= Len(written)
      BY <1>2, <1>7, <2>1 DEF FileShape
    <3>2. p - 1 \in DOMAIN file /\ k \in Nat
      BY <1>2, <2>1, <3>1, TailerAssumption DEF TailerAssumption
    <3>3. k <= Len(written)'
      BY <1>6, <3>1, <3>2
    <3> QED
      BY <1>2, <3>1, <3>2, <3>3
  <2>2. CASE p = n + 2
    <3>1. k = m
      BY <1>2, <1>3, <1>7, <2>2
    <3>2. p > 1 /\ p - 1 = n + 1
      BY <1>2, <2>2
    <3> QED
      BY <1>2, <1>6, <3>1, <3>2
  <2> QED
    BY <1>2, <1>3, <1>7, <2>1, <2>2
<1>8. FileShape'
  <2>1. half' = 0 /\ file'[Len(file')] = NL
    BY <1>2
  <2> QED
    BY <1>5, <1>7, <2>1 DEF FileShape
<1>9. NextKey = 2 * m /\ NextKey' = 2 * m + 2
  <2>1. NextKey = 2 * Len(written) + 2
    BY NextKeyIs
  <2>2. NextKey' = 2 * (Len(written)' + 1)
    BY DEF NextKey
  <2> QED
    BY <1>6, <2>1, <2>2
<1>10. /\ Key(HeadOf(m)) = 2 * m /\ Key(TailOf(m)) = 2 * m + 1 /\ ~Bare(NL)
       /\ \A p \in DOMAIN file' \ DOMAIN file : p = n + 1 \/ p = n + 2 \/ p = n + 3
  BY <1>3, PieceFacts
<1>11. Grown
  <2>1. ASSUME NEW p \in DOMAIN file' \ DOMAIN file, Bare(file'[p])
        PROVE  /\ NextKey <= Key(file'[p]) /\ Key(file'[p]) < NextKey'
               /\ \A q \in DOMAIN file' \ DOMAIN file :
                    p < q /\ Bare(file'[q]) => Key(file'[p]) < Key(file'[q])
    <3>1. CASE p = n + 1
      <4>1. Key(file'[p]) = 2 * m
        BY <1>2, <1>10, <3>1
      <4>2. ASSUME NEW q \in DOMAIN file' \ DOMAIN file, p < q, Bare(file'[q])
            PROVE  Key(file'[q]) = 2 * m + 1
        <5>1. q = n + 2 \/ q = n + 3
          BY <1>2, <1>10, <3>1, <4>2
        <5> QED
          BY <1>2, <1>10, <4>2, <5>1
      <4>3. 2 * m \in Nat /\ 2 * m < 2 * m + 1 /\ 2 * m < 2 * m + 2 /\ 2 * m <= 2 * m
        BY <1>6
      <4> QED
        BY <1>9, <4>1, <4>2, <4>3
    <3>2. CASE p = n + 2
      <4>1. Key(file'[p]) = 2 * m + 1
        BY <1>2, <1>10, <3>2
      <4>2. ASSUME NEW q \in DOMAIN file' \ DOMAIN file, p < q, Bare(file'[q]) PROVE FALSE
        BY <1>2, <1>10, <3>2, <4>2
      <4>3. 2 * m <= 2 * m + 1 /\ 2 * m + 1 < 2 * m + 2
        BY <1>6
      <4> QED
        BY <1>9, <4>1, <4>2, <4>3
    <3> QED
      BY <1>2, <1>10, <2>1, <3>1, <3>2
  <2>2. ASSUME NEW p \in DOMAIN file' \ DOMAIN file, NEW k \in Msgs, file'[p] = TailOf(k)
        PROVE  k > Len(written)
    <3>1. k = m
      BY <1>2, <1>3, <1>10, <2>2
    <3> QED
      BY <1>6, <3>1
  <2>3. NextKey <= NextKey' /\ NextKey' \in Nat
    BY <1>6, <1>9
  <2>4. Len(file) <= Len(file')
    BY <1>2 DEF n
  <2> QED
    BY <1>2, <2>1, <2>2, <2>3, <2>4 DEF Grown
<1> QED
  BY <1>2, <1>8, <1>11

\* The first half of a line.
LEMMA HeadGrows ==
  ASSUME TailerTypeOK, FileShape, NEW m \in Msgs, m = Len(written) + 1, half = 0,
         file' = file \o <<HeadOf(m)>>, half' = m, written' = written
  PROVE  file' \in Seq(Pieces) /\ FileShape' /\ Grown
<1> DEFINE s == <<HeadOf(m)>>
           n == Len(file)
<1>1. s \in Seq(Pieces) /\ Len(s) = 1 /\ s[1] = HeadOf(m)
  BY PieceFacts
<1>2. /\ file \in Seq(Pieces) /\ n \in Nat
      /\ file' \in Seq(Pieces) /\ Len(file') = n + 1
      /\ \A p \in DOMAIN file : file'[p] = file[p]
      /\ file'[n + 1] = HeadOf(m)
  <2>1. file \in Seq(Pieces)
    BY DEF TailerTypeOK
  <2> HIDE DEF s
  <2> QED
    BY <1>1, <2>1, Appended DEF s
<1>3. /\ \A p \in DOMAIN file' : p \in DOMAIN file \/ p = n + 1
      /\ \A k, l \in Msgs : HeadOf(k) # NL /\ TailOf(k) # NL /\ HeadOf(k) # TailOf(l)
  <2>1. \A p \in DOMAIN file' : p \in DOMAIN file \/ p = n + 1
    BY <1>2
  <2> QED
    BY <2>1, PieceFacts
<1> HIDE DEF s, n
<1>4. n > 0 => file'[n] = NL
  BY <1>2 DEF FileShape, n
<1>5. ASSUME NEW p \in DOMAIN file', NEW k \in Msgs, file'[p] = HeadOf(k)
      PROVE  /\ p > 1 => file'[p - 1] = NL
             /\ p < Len(file') => file'[p + 1] # NL
  <2>1. CASE p \in DOMAIN file
    <3>1. p # n
      BY <1>2, <1>3, <1>4, <1>5, <2>1 DEF n
    <3> QED
      BY <1>2, <1>5, <2>1, <3>1 DEF FileShape, n
  <2>2. CASE p = n + 1
    BY <1>2, <1>3, <1>4, <2>2
  <2> QED
    BY <1>3, <2>1, <2>2
<1>6. Len(written) \in Nat /\ m \in Nat /\ m # 0 /\ NextKey \in Nat
  BY NextKeyIs, TailerAssumption DEF TailerTypeOK, TailerAssumption
<1>7. ASSUME NEW p \in DOMAIN file', NEW k \in Msgs, file'[p] = TailOf(k)
      PROVE  p > 1 /\ file'[p - 1] \in {HeadOf(k), NL} /\ k <= Len(written)'
  <2>1. p \in DOMAIN file
    BY <1>2, <1>3, <1>7
  <2>2. p > 1 /\ file[p - 1] \in {HeadOf(k), NL} /\ k <= Len(written)
    BY <1>2, <1>7, <2>1 DEF FileShape
  <2>3. p - 1 \in DOMAIN file
    BY <1>2, <2>1, <2>2
  <2> QED
    BY <1>2, <2>2, <2>3
<1>8. FileShape'
  <2>1. half' = Len(written)' + 1 /\ half' # 0 /\ file' # <<>> /\ file'[Len(file')] = HeadOf(half')
    BY <1>2, <1>6
  <2> QED
    BY <1>5, <1>7, <2>1 DEF FileShape
<1>9. NextKey = 2 * m /\ NextKey' = 2 * m + 1
  <2>1. NextKey = 2 * Len(written) + 2
    BY NextKeyIs
  <2>2. NextKey' = 2 * m + 1
    BY <1>6 DEF NextKey
  <2> QED
    BY <1>6, <2>1, <2>2
<1>10. Key(HeadOf(m)) = 2 * m /\ \A p \in DOMAIN file' \ DOMAIN file : p = n + 1
  BY <1>3, PieceFacts
<1>11. Grown
  <2>1. ASSUME NEW p \in DOMAIN file' \ DOMAIN file
        PROVE  /\ Key(file'[p]) = 2 * m
               /\ \A k \in Msgs : file'[p] # TailOf(k)
               /\ \A q \in DOMAIN file' \ DOMAIN file : ~(p < q)
    <3>1. p = n + 1 /\ \A q \in DOMAIN file' \ DOMAIN file : q = n + 1
      BY <1>10
    <3> QED
      BY <1>2, <1>3, <1>10, <3>1
  <2>2. 2 * m <= 2 * m /\ 2 * m < 2 * m + 1 /\ 2 * m <= 2 * m + 1 /\ 2 * m + 1 \in Nat
    BY <1>6
  <2>3. Len(file) <= Len(file')
    BY <1>2 DEF n
  <2> QED
    BY <1>2, <1>9, <2>1, <2>2, <2>3 DEF Grown
<1> QED
  BY <1>2, <1>8, <1>11

\* Its second half.
LEMMA TailGrows ==
  ASSUME TailerTypeOK, FileShape, NEW m \in Msgs, half = m,
         file' = file \o <<TailOf(m), NL>>, half' = 0, written' = Append(written, m)
  PROVE  file' \in Seq(Pieces) /\ FileShape' /\ Grown
<1> DEFINE s == <<TailOf(m), NL>>
           n == Len(file)
<1>1. s \in Seq(Pieces) /\ Len(s) = 2 /\ s[1] = TailOf(m) /\ s[2] = NL
  BY PieceFacts
<1>2. /\ file \in Seq(Pieces) /\ n \in Nat
      /\ file' \in Seq(Pieces) /\ Len(file') = n + 2
      /\ \A p \in DOMAIN file : file'[p] = file[p]
      /\ file'[n + 1] = TailOf(m) /\ file'[n + 2] = NL
  <2>1. file \in Seq(Pieces)
    BY DEF TailerTypeOK
  <2> HIDE DEF s
  <2> QED
    BY <1>1, <2>1, Appended DEF s
<1>3. /\ \A p \in DOMAIN file' : p \in DOMAIN file \/ p = n + 1 \/ p = n + 2
      /\ \A k, l \in Msgs : HeadOf(k) # NL /\ TailOf(k) # NL /\ HeadOf(k) # TailOf(l)
      /\ \A k \in Msgs : TailOf(m) = TailOf(k) => k = m
  <2>1. \A p \in DOMAIN file' : p \in DOMAIN file \/ p = n + 1 \/ p = n + 2
    BY <1>2
  <2> QED
    BY <2>1, PieceFacts
<1> HIDE DEF s, n
<1>4. /\ m \in Nat /\ m # 0 /\ m = Len(written) + 1 /\ Len(written) \in Nat
      /\ n > 0 /\ file'[n] \in {HeadOf(m), NL}
  <2>1. m \in Nat /\ m # 0
    BY TailerAssumption DEF TailerAssumption
  <2>2. m = Len(written) + 1 /\ Len(written) \in Nat /\ file # <<>>
    BY <2>1, NextKeyIs DEF FileShape
  <2>3. n > 0 /\ n \in DOMAIN file
    BY <1>2, <2>2 DEF n
  <2>4. file[n] \in {NL, HeadOf(m)}
    BY <2>1, <2>2 DEF FileShape, n
  <2> QED
    BY <1>2, <2>1, <2>2, <2>3, <2>4
<1>5. ASSUME NEW p \in DOMAIN file', NEW k \in Msgs, file'[p] = HeadOf(k)
      PROVE  /\ p > 1 => file'[p - 1] = NL
             /\ p < Len(file') => file'[p + 1] # NL
  <2>1. p \in DOMAIN file /\ file[p] = HeadOf(k)
    BY <1>2, <1>3, <1>5
  <2>2. CASE p = n
    <3>1. p > 1 => file'[p - 1] = NL
      BY <1>2, <2>1 DEF FileShape, n
    <3> QED
      BY <1>2, <1>3, <2>2, <3>1
  <2>3. CASE p < n
    BY <1>2, <2>1, <2>3 DEF FileShape, n
  <2> QED
    BY <1>2, <2>1, <2>2, <2>3 DEF n
<1>6. Len(written)' = Len(written) + 1
  BY DEF TailerTypeOK
<1>7. ASSUME NEW p \in DOMAIN file', NEW k \in Msgs, file'[p] = TailOf(k)
      PROVE  p > 1 /\ file'[p - 1] \in {HeadOf(k), NL} /\ k <= Len(written)'
  <2>1. CASE p \in DOMAIN file
    <3>1. p > 1 /\ file[p - 1] \in {HeadOf(k), NL} /\ k <= Len(written)
      BY <1>2, <1>7, <2>1 DEF FileShape
    <3>2. p - 1 \in DOMAIN file /\ k \in Nat
      BY <1>2, <2>1, <3>1, TailerAssumption DEF TailerAssumption
    <3>3. k <= Len(written)'
      BY <1>4, <1>6, <3>1, <3>2
    <3> QED
      BY <1>2, <3>1, <3>2, <3>3
  <2>2. CASE p = n + 1
    <3>1. k = m
      BY <1>2, <1>3, <1>7, <2>2
    <3>2. p > 1 /\ p - 1 = n
      BY <1>2, <1>4, <2>2
    <3>3. k <= Len(written)'
      BY <1>4, <1>6, <3>1
    <3> QED
      BY <1>4, <3>1, <3>2, <3>3
  <2> QED
    BY <1>2, <1>3, <1>7, <2>1, <2>2
<1>8. FileShape'
  <2>1. half' = 0 /\ file'[Len(file')] = NL
    BY <1>2
  <2> QED
    BY <1>5, <1>7, <2>1 DEF FileShape
<1>9. NextKey = 2 * m + 1 /\ NextKey' = 2 * m + 2
  <2>1. NextKey = 2 * m + 1
    BY <1>4 DEF NextKey
  <2>2. NextKey' = 2 * (Len(written)' + 1)
    BY DEF NextKey
  <2> QED
    BY <1>4, <1>6, <2>1, <2>2
<1>10. /\ Key(TailOf(m)) = 2 * m + 1 /\ ~Bare(NL)
       /\ \A p \in DOMAIN file' \ DOMAIN file : p = n + 1 \/ p = n + 2
  BY <1>3, PieceFacts
<1>11. Grown
  <2>1. ASSUME NEW p \in DOMAIN file' \ DOMAIN file, Bare(file'[p])
        PROVE  p = n + 1 /\ Key(file'[p]) = 2 * m + 1
    BY <1>2, <1>10, <2>1
  <2>2. ASSUME NEW p \in DOMAIN file' \ DOMAIN file, NEW q \in DOMAIN file' \ DOMAIN file,
               p < q, Bare(file'[p]), Bare(file'[q])
        PROVE  FALSE
    <3>1. p = n + 1 /\ q = n + 1
      BY <2>1, <2>2
    <3> QED
      BY <1>2, <2>2, <3>1
  <2>3. ASSUME NEW p \in DOMAIN file' \ DOMAIN file, NEW k \in Msgs, file'[p] = TailOf(k)
        PROVE  k > Len(written)
    <3>1. k = m
      BY <1>2, <1>3, <1>10, <2>3
    <3> QED
      BY <1>4, <3>1
  <2>4. /\ 2 * m + 1 <= 2 * m + 1 /\ 2 * m + 1 < 2 * m + 2 /\ 2 * m + 1 <= 2 * m + 2
        /\ 2 * m + 2 \in Nat
    BY <1>4
  <2>5. Len(file) <= Len(file')
    BY <1>2 DEF n
  <2> QED
    BY <1>2, <1>9, <2>1, <2>2, <2>3, <2>4, <2>5 DEF Grown
<1> QED
  BY <1>2, <1>8, <1>11

LEMMA KeysAreNumbers ==
  ASSUME TailerTypeOK
  PROVE  /\ \A s \in Lines : Key(s[1]) \in Nat
         /\ \A k \in DOMAIN handed : handed[k] \in Lines /\ Key(handed[k][1]) \in Nat
         /\ \A w \in Workers : \A l \in todo[w] :
              l \in Nat \X Lines /\ l[1] \in Nat /\ l[2] \in Lines /\ Key(l[2][1]) \in Nat
         /\ \A p \in DOMAIN file : file[p] \in Pieces /\ (Bare(file[p]) => Key(file[p]) \in Nat)
<1>1. \A s \in Lines : s[1] \in Pieces /\ Bare(s[1])
  BY DEF Lines
<1>2. \A s \in Lines : Key(s[1]) \in Nat
  BY <1>1, PieceFacts
<1>3. \A k \in DOMAIN handed : handed[k] \in Lines
  BY DEF TailerTypeOK
<1>4. \A w \in Workers : \A l \in todo[w] : l \in Nat \X Lines /\ l[1] \in Nat /\ l[2] \in Lines
  BY DEF TailerTypeOK
<1>5. \A p \in DOMAIN file : file[p] \in Pieces
  BY DEF TailerTypeOK
<1> QED
  BY <1>2, <1>3, <1>4, <1>5, PieceFacts

LEMMA OrderGrows ==
  ASSUME TailerTypeOK, FileOrder, file' \in Seq(Pieces), Grown
  PROVE  /\ \A p, q \in DOMAIN file' :
              p < q /\ Bare(file'[p]) /\ Bare(file'[q]) => Key(file'[p]) < Key(file'[q])
         /\ \A p \in DOMAIN file' : Bare(file'[p]) => Key(file'[p]) < NextKey'
         /\ \A s \in Lines : Key(s[1]) < NextKey => Key(s[1]) < NextKey'
<1>1. NextKey \in Nat /\ NextKey' \in Nat /\ NextKey <= NextKey'
  BY NextKeyIs DEF Grown
<1>2. \A p \in DOMAIN file' : Bare(file'[p]) => Key(file'[p]) \in Nat
  BY PieceFacts
<1>3. \A p \in DOMAIN file' : p \in Nat /\ (p \notin DOMAIN file => p > Len(file))
  BY DEF TailerTypeOK
<1>4. ASSUME NEW p \in DOMAIN file', Bare(file'[p]) PROVE Key(file'[p]) < NextKey'
  <2>1. CASE p \in DOMAIN file
    <3>1. Key(file'[p]) < NextKey
      BY <1>4, <2>1 DEF Grown, FileOrder
    <3> QED
      BY <1>1, <1>2, <1>4, <3>1
  <2> QED
    BY <1>4, <2>1 DEF Grown
<1>5. ASSUME NEW p \in DOMAIN file', NEW q \in DOMAIN file', p < q, Bare(file'[p]), Bare(file'[q])
      PROVE  Key(file'[p]) < Key(file'[q])
  <2>1. CASE q \in DOMAIN file
    <3>1. p \in DOMAIN file
      BY <1>3, <1>5, <2>1 DEF TailerTypeOK
    <3> QED
      BY <1>5, <2>1, <3>1 DEF Grown, FileOrder
  <2>2. CASE q \notin DOMAIN file /\ p \in DOMAIN file
    <3>1. Key(file'[p]) < NextKey
      BY <1>5, <2>2 DEF Grown, FileOrder
    <3>2. NextKey <= Key(file'[q])
      BY <1>5, <2>2 DEF Grown
    <3> QED
      BY <1>1, <1>2, <1>5, <3>1, <3>2
  <2>3. CASE q \notin DOMAIN file /\ p \notin DOMAIN file
    BY <1>5, <2>3 DEF Grown
  <2> QED
    BY <2>1, <2>2, <2>3
<1>6. \A s \in Lines : Key(s[1]) < NextKey => Key(s[1]) < NextKey'
  BY <1>1, KeysAreNumbers
<1> QED
  BY <1>4, <1>5, <1>6

\* What a writer keeps of the invariant.
LEMMA WriterKeeps ==
  ASSUME TailerInv, file' \in Seq(Pieces), Grown, FileShape',
         UNCHANGED <<saved, up, cursor, lock, todo, upto, handed, faults, crashes, edits>>,
         \A m \in owed' : m \in owed \/ (m \in Msgs /\ m > Len(written) /\ up)
  PROVE  FileOrder' /\ OneChunk' /\ NothingSkipped' /\ InOrder'
<1> USE DEF TailerInv
<1>1. FileOrder'
  <2>1. \A w \in Workers : \A l \in todo'[w] : Key(l[2][1]) < NextKey'
    BY OrderGrows, KeysAreNumbers DEF FileOrder
  <2>2. \A k \in DOMAIN handed' : Key(handed'[k][1]) < NextKey'
    BY OrderGrows, KeysAreNumbers DEF FileOrder
  <2> QED
    BY <2>1, <2>2, OrderGrows DEF FileOrder
<1>2. OneChunk'
  BY DEF OneChunk
<1>3. /\ Len(file) \in Nat /\ Len(file') \in Nat /\ Len(file) <= Len(file')
      /\ cursor \in Int /\ saved \in Int /\ \A w \in Workers : upto[w] \in Nat
      /\ \A p \in DOMAIN file' : p \in Nat /\ (p \in DOMAIN file <=> p <= Len(file))
      /\ \A p \in DOMAIN file : p \in DOMAIN file' /\ file'[p] = file[p]
  BY DEF TailerTypeOK, Grown, Unseen
<1>4. \A m : Reached(m)' <=> Reached(m)
  BY DEF Reached
<1>5. NothingSkipped'
  <2> SUFFICES ASSUME crashes = 0, edits = 0
               PROVE  /\ ~up => owed' = {} /\ saved <= Len(file')
                      /\ cursor <= Len(file')
                      /\ \A w \in Workers : upto[w] <= Len(file')
                      /\ \A p \in DOMAIN file', m \in owed' : file'[p] = TailOf(m) /\ p <= cursor => Reached(m)
                      /\ \A w \in Workers, p \in DOMAIN file', m \in Msgs :
                           file'[p] = TailOf(m) /\ cursor < p /\ p <= upto[w] =>
                             Reached(m) \/ \E l \in todo[w] : TailOf(m) \in Range(l[2])
    BY <1>4 DEF NothingSkipped
  <2>1. /\ ~up => owed = {} /\ saved <= Len(file)
        /\ cursor <= Len(file)
        /\ \A w \in Workers : upto[w] <= Len(file)
    BY DEF NothingSkipped
  <2>2. ~up => owed' = {} /\ saved <= Len(file')
    BY <1>3, <2>1
  <2>3. cursor <= Len(file') /\ \A w \in Workers : upto[w] <= Len(file')
    BY <1>3, <2>1
  <2>4. ASSUME NEW p \in DOMAIN file', NEW m \in owed', file'[p] = TailOf(m), p <= cursor
        PROVE  Reached(m)
    <3>1. p \in DOMAIN file
      BY <1>3, <2>1, <2>4
    <3>2. file[p] = TailOf(m)
      BY <1>3, <2>4, <3>1
    <3>3. m \in owed
      <4>1. SUFFICES ASSUME m \in Msgs, m > Len(written) PROVE FALSE
        OBVIOUS
      <4>2. m <= Len(written)
        BY <3>1, <3>2, <4>1 DEF FileShape
      <4> QED
        BY <4>1, <4>2, NextKeyIs, TailerAssumption DEF TailerAssumption
    <3> QED
      BY <2>4, <3>1, <3>2, <3>3 DEF NothingSkipped
  <2>5. ASSUME NEW w \in Workers, NEW p \in DOMAIN file', NEW m \in Msgs,
               file'[p] = TailOf(m), cursor < p, p <= upto[w]
        PROVE  Reached(m) \/ \E l \in todo[w] : TailOf(m) \in Range(l[2])
    <3>1. p \in DOMAIN file
      BY <1>3, <2>1, <2>5
    <3>2. file[p] = TailOf(m)
      BY <1>3, <2>5, <3>1
    <3> QED
      BY <2>5, <3>1, <3>2 DEF NothingSkipped
  <2> QED
    BY <2>2, <2>3, <2>4, <2>5
<1>6. InOrder'
  <2> SUFFICES ASSUME faults = 0, crashes = 0,
                      NEW p \in DOMAIN file', Bare(file'[p]), p > cursor,
                      \A w \in Workers : p > upto[w]
               PROVE  /\ \A k \in DOMAIN handed : Before(handed[k], file'[p])
                      /\ \A w \in Workers : \A l \in todo[w] : Before(l[2], file'[p])
    BY DEF InOrder, Before
  <2>1. CASE p \in DOMAIN file
    BY <1>3, <2>1 DEF InOrder
  <2>2. CASE p \notin DOMAIN file
    <3>1. NextKey <= Key(file'[p]) /\ NextKey \in Nat /\ Key(file'[p]) \in Nat
      BY <2>2, NextKeyIs, PieceFacts DEF Grown
    <3>2. \A k \in DOMAIN handed : Before(handed[k], file'[p])
      BY <3>1, KeysAreNumbers DEF FileOrder, Before
    <3>3. \A w \in Workers : \A l \in todo[w] : Before(l[2], file'[p])
      BY <3>1, KeysAreNumbers DEF FileOrder, Before
    <3> QED
      BY <3>2, <3>3
  <2> QED
    BY <2>1, <2>2
<1> QED
  BY <1>1, <1>2, <1>5, <1>6

-----------------------------------------------------------------------------
(* The driver's steps.                                                     *)

MemoryTypeOK ==
  /\ saved \in Nat \cup {Unseen} /\ cursor \in Nat \cup {Unseen}
  /\ lock \in Workers \cup {"free"}
  /\ todo \in [Workers -> SUBSET (Nat \X Lines)] /\ upto \in [Workers -> Nat]

LEMMA NobodyDrains ==
  ASSUME TailerInv, lock = "free"
  PROVE  \A w \in Workers : upto[w] = 0 /\ todo[w] = {}
<1>1. \A w \in Workers : w # "free" /\ upto[w] \in Nat
  BY DEF Workers, TailerInv, TailerTypeOK
<1>2. \A w \in Workers : ~(upto[w] > 0)
  BY <1>1 DEF TailerInv, OneChunk
<1> QED
  BY <1>1, <1>2 DEF TailerInv, OneChunk

LEMMA DrainKeeps ==
  ASSUME TailerInv, NEW w \in Workers, lock = "free", up, Drain(w),
         UNCHANGED <<file, up, written, owed, half, handed, faults, crashes, edits>>
  PROVE  MemoryTypeOK' /\ FileOrder' /\ OneChunk' /\ NothingSkipped' /\ InOrder'
<1> DEFINE from == IF cursor = Unseen THEN 0 ELSE cursor
           to   == LastNewline(from)
<1>1. /\ from \in Nat /\ cursor <= from /\ cursor \in Int /\ file \in Seq(Pieces) /\ Len(file) \in Nat
      /\ \A p \in DOMAIN file : p \in Nat /\ p > 0 /\ p <= Len(file)
      /\ \A p \in DOMAIN file : p > from <=> p > cursor
  BY DEF TailerInv, TailerTypeOK, Unseen
<1>2. \A v \in Workers : upto[v] = 0 /\ todo[v] = {}
  BY NobodyDrains
<1>3. \A m : Reached(m)' <=> Reached(m)
  BY DEF Reached
<1>4. /\ \A p, q \in DOMAIN file : p < q /\ Bare(file[p]) /\ Bare(file[q]) => Key(file[p]) < Key(file[q])
      /\ \A p \in DOMAIN file : Bare(file[p]) => Key(file[p]) < NextKey
      /\ \A k \in DOMAIN handed : Key(handed[k][1]) < NextKey
      /\ NextKey' = NextKey
  BY DEF TailerInv, FileOrder, NextKey
<1>5. CASE Len(file) < from
  <2>1. cursor' = Len(file) /\ saved' = Len(file) /\ UNCHANGED <<lock, todo, upto>>
    BY <1>5 DEF Drain
  <2>2. MemoryTypeOK'
    BY <1>1, <2>1 DEF MemoryTypeOK, TailerInv, TailerTypeOK
  <2>3. FileOrder'
    BY <1>4, <2>1 DEF FileOrder, TailerInv
  <2>4. OneChunk'
    BY <1>2, <2>1 DEF OneChunk
  <2>5. NothingSkipped'
    <3>1. crashes = 0 /\ edits = 0 => cursor <= Len(file)
      BY DEF TailerInv, NothingSkipped
    <3>2. ~(crashes = 0 /\ edits = 0)
      BY <1>1, <1>5, <3>1
    <3> QED
      BY <3>2 DEF NothingSkipped
  <2>6. InOrder'
    <3>1. \A p \in DOMAIN file : ~(p > cursor')
      BY <1>1, <2>1
    <3> QED
      BY <1>2, <2>1, <3>1 DEF InOrder, TailerInv, Before
  <2> QED
    BY <2>2, <2>3, <2>4, <2>5, <2>6
<1>6. CASE ~(Len(file) < from) /\ to = from
  <2>1. UNCHANGED <<cursor, saved, lock, todo, upto>>
    BY <1>6 DEF Drain
  <2> QED
    BY <1>3, <2>1 DEF MemoryTypeOK, TailerInv, TailerTypeOK, FileOrder, NextKey, OneChunk,
                      NothingSkipped, InOrder, Before
<1>7. CASE ~(Len(file) < from) /\ to # from
  <2>1. /\ lock' = w /\ todo' = [todo EXCEPT ![w] = BareLines(from, to)]
        /\ upto' = [upto EXCEPT ![w] = to] /\ UNCHANGED <<cursor, saved>>
    BY <1>7 DEF Drain
  <2>2. to \in (from + 1)..Len(file) /\ file[to] = NL
    <3> HIDE DEF from
    <3> QED
      BY <1>1, <1>7, LastNewlineIs
  <2>3. \A l \in BareLines(from, to) : /\ l \in Nat \X Lines /\ l[1] \in (from + 1)..to
                                       /\ l[2][1] = file[l[1]]
                                       /\ \A n \in BareLines(from, to) : l # n => l[1] # n[1]
    <3> HIDE DEF from, to
    <3> QED
      BY <1>1, <2>2, ChunkLines DEF TailerInv
  <2>4. \A p \in (from + 1)..to, m \in Msgs : file[p] = TailOf(m) =>
          \E l \in BareLines(from, to) : TailOf(m) \in Range(l[2])
    <3> HIDE DEF from, to
    <3> QED
      BY <1>1, <2>2, ChunkLines DEF TailerInv
  <2> DEFINE B == BareLines(from, to)
  <2> HIDE DEF from, to, B
  <2>5. /\ todo'[w] = B /\ upto'[w] = to
        /\ \A v \in Workers : v # w => todo'[v] = {} /\ upto'[v] = 0
    BY <1>2, <2>1 DEF B, TailerInv, TailerTypeOK
  <2>6. /\ to \in Nat /\ to > from /\ to > cursor /\ to <= Len(file)
        /\ \A l \in B : /\ l[1] \in DOMAIN file /\ l[2][1] = file[l[1]]
                        /\ from < l[1] /\ l[1] <= to /\ l[2] \in Lines /\ Bare(file[l[1]])
                        /\ l \in Nat \X Lines
    <3>1. to \in Nat /\ to > from /\ to > cursor /\ to <= Len(file)
      BY <1>1, <2>2
    <3>2. ASSUME NEW l \in B
          PROVE  /\ l[1] \in DOMAIN file /\ l[2][1] = file[l[1]]
                 /\ from < l[1] /\ l[1] <= to /\ l[2] \in Lines /\ Bare(file[l[1]])
                 /\ l \in Nat \X Lines
      <4>1. l \in Nat \X Lines /\ l[1] \in (from + 1)..to /\ l[2][1] = file[l[1]]
        BY <2>3, <3>2 DEF B
      <4>2. l[2] \in Lines /\ Bare(l[2][1])
        BY <4>1 DEF Lines
      <4> QED
        BY <1>1, <2>2, <4>1, <4>2
    <3> QED
      BY <3>1, <3>2
  <2>7. MemoryTypeOK'
    <3>1. todo' \in [Workers -> SUBSET (Nat \X Lines)]
      BY <2>1, <2>6 DEF B, TailerInv, TailerTypeOK
    <3>2. upto' \in [Workers -> Nat]
      BY <2>1, <2>6 DEF TailerInv, TailerTypeOK
    <3> QED
      BY <2>1, <3>1, <3>2 DEF MemoryTypeOK, TailerInv, TailerTypeOK
  <2>8. FileOrder'
    <3>1. \A v \in Workers : \A l \in todo'[v] : Key(l[2][1]) < NextKey'
      BY <1>4, <2>5, <2>6
    <3> QED
      BY <1>4, <3>1 DEF FileOrder
  <2>9. OneChunk'
    <3>1. \A v \in Workers : upto'[v] > 0 => lock' = v /\ up' /\ cursor' < upto'[v]
      BY <1>1, <2>1, <2>5, <2>6
    <3>2. \A v \in Workers : todo'[v] # {} => upto'[v] > 0
      BY <1>1, <2>5, <2>6
    <3> QED
      BY <3>1, <3>2 DEF OneChunk
  <2>10. NothingSkipped'
    <3> SUFFICES ASSUME crashes = 0, edits = 0
                 PROVE  /\ \A v \in Workers : upto'[v] <= Len(file)
                        /\ \A v \in Workers, p \in DOMAIN file, m \in Msgs :
                             file[p] = TailOf(m) /\ cursor < p /\ p <= upto'[v] =>
                               Reached(m) \/ \E l \in todo'[v] : TailOf(m) \in Range(l[2])
      BY <1>3, <2>1 DEF TailerInv, NothingSkipped
    <3>1. \A v \in Workers : upto'[v] <= Len(file)
      BY <1>1, <2>5, <2>6
    <3>2. ASSUME NEW v \in Workers, NEW p \in DOMAIN file, NEW m \in Msgs,
                 file[p] = TailOf(m), cursor < p, p <= upto'[v]
          PROVE  \E l \in todo'[v] : TailOf(m) \in Range(l[2])
      <4>1. v = w
        BY <1>1, <2>5, <3>2
      <4>2. p \in (from + 1)..to
        BY <1>1, <2>5, <2>6, <3>2, <4>1
      <4>3. \E l \in BareLines(from, to) : TailOf(m) \in Range(l[2])
        BY <2>4, <3>2, <4>2
      <4> QED
        BY <2>5, <4>1, <4>3 DEF B
    <3> QED
      BY <3>1, <3>2
  <2>11. InOrder'
    <3> SUFFICES ASSUME faults = 0, crashes = 0 PROVE InOrder'
      BY DEF InOrder
    <3>1. \A j, k \in DOMAIN handed : j < k => Before(handed[j], handed[k][1])
      BY DEF TailerInv, InOrder
    <3>2. \A p \in DOMAIN file : Bare(file[p]) /\ p > cursor =>
            \A k \in DOMAIN handed : Before(handed[k], file[p])
      <4>1. \A p \in DOMAIN file : \A v \in Workers : p > upto[v]
        BY <1>1, <1>2
      <4> QED
        BY <4>1 DEF TailerInv, InOrder
    <3>3. \A l \in B, k \in DOMAIN handed : Before(handed[k], l[2][1])
      <4>1. \A l \in B : l[1] > cursor
        BY <1>1, <2>6
      <4> QED
        BY <2>6, <3>2, <4>1
    <3>4. \A l, n \in B : l # n => l[1] # n[1] /\ (l[1] < n[1] => Before(l[2], n[2][1]))
      <4>1. \A l, n \in B : l # n => l[1] # n[1]
        BY <2>3 DEF B
      <4>2. \A l, n \in B : l[1] < n[1] => Before(l[2], n[2][1])
        BY <1>4, <2>6 DEF Before
      <4> QED
        BY <4>1, <4>2
    <3>5. \A v \in Workers : \A l \in todo'[v] : v = w /\ l \in B
      BY <2>5
    <3>6. ASSUME NEW p \in DOMAIN file, Bare(file[p]), p > upto'[w], NEW l \in B
          PROVE  Before(l[2], file[p])
      <4>1. l[1] < p
        BY <1>1, <2>5, <2>6, <3>6
      <4> QED
        BY <1>4, <2>6, <3>6, <4>1 DEF Before
    <3>7. up' /\ handed' = handed /\ file' = file /\ cursor' = cursor /\ w \in Workers /\ todo'[w] = B
      BY <2>1, <2>5
    <3>8. /\ \A j, k \in DOMAIN handed' : j < k => Before(handed'[j], handed'[k][1])
          /\ \A v \in Workers : \A l \in todo'[v] :
               /\ \A k \in DOMAIN handed' : Before(handed'[k], l[2][1])
               /\ \A n \in todo'[v] : l # n => l[1] # n[1] /\ (l[1] < n[1] => Before(l[2], n[2][1]))
      BY <3>1, <3>3, <3>4, <3>5, <3>7
    <3>9. ASSUME NEW p \in DOMAIN file', Bare(file'[p]), p > cursor', \A v \in Workers : p > upto'[v]
          PROVE  /\ \A k \in DOMAIN handed' : Before(handed'[k], file'[p])
                 /\ \A v \in Workers : \A l \in todo'[v] : Before(l[2], file'[p])
      BY <3>2, <3>5, <3>6, <3>7, <3>9
    <3> QED
      BY <3>7, <3>8, <3>9 DEF InOrder, Before
  <2> QED
    BY <2>7, <2>8, <2>9, <2>10, <2>11
<1> QED
  BY <1>5, <1>6, <1>7

\* A line is done: it moves from the task to what was handed over.
LEMMA LineDoneKeeps ==
  ASSUME TailerInv, NEW w \in Workers, LineDone(w), file' \in Seq(Pieces), Grown, FileShape'
  PROVE  /\ handed' \in Seq(Lines) /\ MemoryTypeOK'
         /\ FileOrder' /\ OneChunk' /\ NothingSkipped' /\ InOrder'
<1>1. PICK l \in todo[w] : /\ FirstLine(w, l) /\ handed' = Append(handed, l[2])
                           /\ todo' = [todo EXCEPT ![w] = @ \ {l}]
  BY DEF LineDone
<1>2. UNCHANGED <<saved, up, cursor, lock, upto, written, owed, half, faults, crashes, edits>>
  BY DEF LineDone, thread, paper, counts
<1>3. /\ handed \in Seq(Lines) /\ l \in Nat \X Lines /\ l[2] \in Lines /\ l[1] \in Nat
      /\ l = <<l[1], l[2]>>
  BY DEF TailerInv, TailerTypeOK
<1> DEFINE n == Len(handed)
<1>4. /\ handed' \in Seq(Lines) /\ n \in Nat /\ Len(handed') = n + 1 /\ handed'[n + 1] = l[2]
      /\ \A k \in DOMAIN handed : handed'[k] = handed[k]
      /\ \A k \in DOMAIN handed' : k \in DOMAIN handed \/ k = n + 1
      /\ DOMAIN handed = 1..n /\ DOMAIN handed' = 1..(n + 1)
  BY <1>1, <1>3
<1>5. /\ todo'[w] = todo[w] \ {l} /\ \A v \in Workers : v # w => todo'[v] = todo[v]
      /\ \A v \in Workers : todo'[v] \subseteq todo[v]
  BY <1>1 DEF TailerInv, TailerTypeOK
<1> HIDE DEF n
<1>6. MemoryTypeOK'
  <2>1. todo' \in [Workers -> SUBSET (Nat \X Lines)]
    BY <1>1 DEF TailerInv, TailerTypeOK
  <2> QED
    BY <1>2, <2>1 DEF MemoryTypeOK, TailerInv, TailerTypeOK
<1>7. FileOrder'
  <2>1. \A v \in Workers : \A k \in todo'[v] : Key(k[2][1]) < NextKey'
    BY <1>5, OrderGrows, KeysAreNumbers DEF FileOrder, TailerInv
  <2>2. \A k \in DOMAIN handed' : Key(handed'[k][1]) < NextKey'
    <3>1. \A k \in DOMAIN handed : Key(handed[k][1]) < NextKey'
      BY OrderGrows, KeysAreNumbers DEF FileOrder, TailerInv
    <3>2. Key(l[2][1]) < NextKey'
      BY <1>3, OrderGrows DEF FileOrder, TailerInv
    <3> QED
      BY <1>4, <3>1, <3>2
  <2> QED
    BY <2>1, <2>2, OrderGrows DEF FileOrder, TailerInv
<1>8. OneChunk'
  <2>1. \A v \in Workers : todo'[v] # {} => todo[v] # {}
    BY <1>5
  <2> QED
    BY <1>2, <2>1 DEF OneChunk, TailerInv
<1>9. /\ Len(file) \in Nat /\ Len(file') \in Nat /\ Len(file) <= Len(file')
      /\ cursor \in Int /\ saved \in Int /\ \A v \in Workers : upto[v] \in Nat
      /\ \A p \in DOMAIN file' : p \in Nat /\ (p \in DOMAIN file <=> p <= Len(file))
      /\ \A p \in DOMAIN file : p \in DOMAIN file' /\ file'[p] = file[p]
  BY DEF TailerInv, TailerTypeOK, Grown, Unseen
<1>10. \A m : /\ Reached(m) => Reached(m)'
              /\ TailOf(m) \in Range(l[2]) => Reached(m)'
  <2>1. \A k \in DOMAIN handed : k \in DOMAIN handed' /\ handed'[k] = handed[k]
    BY <1>4
  <2>2. n + 1 \in DOMAIN handed'
    BY <1>4
  <2> QED
    BY <1>4, <2>1, <2>2 DEF Reached
<1>11. NothingSkipped'
  <2> SUFFICES ASSUME crashes = 0, edits = 0
               PROVE  /\ ~up => owed = {} /\ saved <= Len(file')
                      /\ cursor <= Len(file')
                      /\ \A v \in Workers : upto[v] <= Len(file')
                      /\ \A p \in DOMAIN file', m \in owed : file'[p] = TailOf(m) /\ p <= cursor => Reached(m)'
                      /\ \A v \in Workers, p \in DOMAIN file', m \in Msgs :
                           file'[p] = TailOf(m) /\ cursor < p /\ p <= upto[v] =>
                             Reached(m)' \/ \E k \in todo'[v] : TailOf(m) \in Range(k[2])
    BY <1>2 DEF NothingSkipped
  <2>1. /\ ~up => owed = {} /\ saved <= Len(file)
        /\ cursor <= Len(file)
        /\ \A v \in Workers : upto[v] <= Len(file)
    BY DEF NothingSkipped, TailerInv
  <2>2. ~up => owed = {} /\ saved <= Len(file')
    BY <1>9, <2>1
  <2>3. cursor <= Len(file') /\ \A v \in Workers : upto[v] <= Len(file')
    BY <1>9, <2>1
  <2>4. ASSUME NEW p \in DOMAIN file', NEW m \in owed, file'[p] = TailOf(m), p <= cursor
        PROVE  Reached(m)'
    <3>1. p \in DOMAIN file
      BY <1>9, <2>1, <2>4
    <3>2. file[p] = TailOf(m)
      BY <1>9, <2>4, <3>1
    <3> QED
      BY <1>10, <2>4, <3>1, <3>2 DEF NothingSkipped, TailerInv
  <2>5. ASSUME NEW v \in Workers, NEW p \in DOMAIN file', NEW m \in Msgs,
               file'[p] = TailOf(m), cursor < p, p <= upto[v]
        PROVE  Reached(m)' \/ \E k \in todo'[v] : TailOf(m) \in Range(k[2])
    <3>1. p \in DOMAIN file
      BY <1>9, <2>1, <2>5
    <3>2. file[p] = TailOf(m)
      BY <1>9, <2>5, <3>1
    <3>3. Reached(m) \/ \E k \in todo[v] : TailOf(m) \in Range(k[2])
      BY <2>5, <3>1, <3>2 DEF NothingSkipped, TailerInv
    <3>4. \A k \in todo[v] : k = l \/ k \in todo'[v]
      BY <1>5
    <3> QED
      BY <1>10, <3>3, <3>4
  <2> QED
    BY <2>2, <2>3, <2>4, <2>5
<1>12. InOrder'
  <2> SUFFICES ASSUME faults = 0, crashes = 0 PROVE InOrder'
    BY <1>2 DEF InOrder
  <2>1. up /\ upto[w] > 0
    BY DEF TailerInv, OneChunk
  <2>2. \A k \in DOMAIN handed : Before(handed[k], l[2][1])
    BY DEF TailerInv, InOrder
  <2>3. \A j, k \in DOMAIN handed : j < k => Before(handed[j], handed[k][1])
    BY DEF TailerInv, InOrder
  <2>4. \A j, k \in DOMAIN handed' : j < k => Before(handed'[j], handed'[k][1])
    <3> TAKE j, k \in DOMAIN handed'
    <3> HAVE j < k
    <3>1. j \in DOMAIN handed
      BY <1>4
    <3> QED
      BY <1>4, <2>2, <2>3, <3>1
  <2>5. \A v \in Workers : v # w => todo[v] = {}
    <3>1. \A v \in Workers : todo[v] # {} => lock = v
      BY DEF TailerInv, OneChunk
    <3> QED
      BY <3>1
  <2>6. \A k \in todo'[w] : k \in todo[w] /\ Before(l[2], k[2][1])
    <3>1. \A k \in todo[w] : l[1] <= k[1] /\ k[1] \in Nat
      BY <1>1, KeysAreNumbers DEF FirstLine, TailerInv
    <3>2. \A k \in todo[w] : k # l => l[1] # k[1] /\ (l[1] < k[1] => Before(l[2], k[2][1]))
      BY DEF TailerInv, InOrder
    <3> QED
      BY <1>3, <1>5, <3>1, <3>2
  <2>7. \A v \in Workers : \A k \in todo'[v] : v = w /\ k \in todo'[w]
    BY <1>5, <2>5
  <2>8. \A v \in Workers : \A k \in todo'[v] :
          /\ \A i \in DOMAIN handed' : Before(handed'[i], k[2][1])
          /\ \A m \in todo'[v] : k # m => k[1] # m[1] /\ (k[1] < m[1] => Before(k[2], m[2][1]))
    <3> TAKE v \in Workers
    <3> TAKE k \in todo'[v]
    <3>1. v = w /\ k \in todo[w] /\ Before(l[2], k[2][1])
      BY <2>6, <2>7
    <3>2. \A i \in DOMAIN handed : Before(handed[i], k[2][1])
      BY <3>1 DEF TailerInv, InOrder
    <3>3. \A m \in todo'[v] : k # m => k[1] # m[1] /\ (k[1] < m[1] => Before(k[2], m[2][1]))
      BY <1>5, <3>1 DEF TailerInv, InOrder
    <3> QED
      BY <1>4, <3>1, <3>2, <3>3
  <2>9. ASSUME NEW p \in DOMAIN file', Bare(file'[p]), p > cursor, \A v \in Workers : p > upto[v]
        PROVE  /\ \A k \in DOMAIN handed' : Before(handed'[k], file'[p])
               /\ \A v \in Workers : \A k \in todo'[v] : Before(k[2], file'[p])
    <3>1. /\ \A k \in DOMAIN handed : Before(handed[k], file'[p])
          /\ \A v \in Workers : \A k \in todo[v] : Before(k[2], file'[p])
      <4>1. CASE p \in DOMAIN file
        <5>1. Bare(file[p]) /\ file'[p] = file[p]
          BY <1>9, <2>9, <4>1
        <5> QED
          BY <2>9, <4>1, <5>1 DEF TailerInv, InOrder
      <4>2. CASE p \notin DOMAIN file
        <5>1. NextKey <= Key(file'[p]) /\ NextKey \in Nat /\ Key(file'[p]) \in Nat
          BY <2>9, <4>2, NextKeyIs, PieceFacts DEF Grown, TailerInv
        <5>2. \A k \in DOMAIN handed : Before(handed[k], file'[p])
          BY <5>1, KeysAreNumbers DEF FileOrder, Before, TailerInv
        <5>3. \A v \in Workers : \A k \in todo[v] : Before(k[2], file'[p])
          BY <5>1, KeysAreNumbers DEF FileOrder, Before, TailerInv
        <5> QED
          BY <5>2, <5>3
      <4> QED
        BY <4>1, <4>2
    <3> QED
      BY <1>4, <1>5, <3>1
  <2> QED
    BY <1>2, <2>1, <2>4, <2>8, <2>9 DEF InOrder, Before
<1> QED
  BY <1>4, <1>6, <1>7, <1>8, <1>11, <1>12

LEMMA LineRaisesKeeps ==
  ASSUME TailerInv, NEW w \in Workers, LineRaises(w)
  PROVE  TailerInv'
<1>1. /\ lock' = "free" /\ todo' = [todo EXCEPT ![w] = {}] /\ upto' = [upto EXCEPT ![w] = 0]
      /\ faults' = faults + 1
      /\ UNCHANGED <<dir, owned, file, saved, up, cursor, woken, dirEvent, written, owed, half,
                     crashes, edits>>
  BY DEF LineRaises, thread, paper
<1>2. handed' \in Seq(Lines)
  <2>1. handed \in Seq(Lines) /\ \A l \in todo[w] : l[2] \in Lines
    BY DEF TailerInv, TailerTypeOK
  <2>2. CASE handed' = handed
    BY <2>1, <2>2
  <2>3. CASE \E l \in todo[w] : handed' = Append(handed, l[2])
    BY <2>1, <2>3
  <2> QED
    BY <2>2, <2>3 DEF LineRaises
<1>3. /\ \A k \in DOMAIN handed : k \in DOMAIN handed' /\ handed'[k] = handed[k]
      /\ \A k \in DOMAIN handed' : k \in DOMAIN handed \/ \E l \in todo[w] : handed'[k] = l[2]
  <2>1. CASE handed' = handed
    BY <2>1
  <2>2. CASE \E l \in todo[w] : handed' = Append(handed, l[2])
    <3>1. PICK l \in todo[w] : handed' = Append(handed, l[2])
      BY <2>2
    <3> QED
      BY <3>1 DEF TailerInv, TailerTypeOK
  <2> QED
    BY <2>1, <2>2 DEF LineRaises
<1>4. /\ upto \in [Workers -> Nat] /\ todo \in [Workers -> SUBSET (Nat \X Lines)]
      /\ \A v \in Workers : v # w => ~(upto[v] > 0) /\ todo[v] = {}
  <2>1. todo[w] # {}
    BY DEF LineRaises
  <2> QED
    BY <2>1 DEF TailerInv, TailerTypeOK, OneChunk
<1>5. \A v \in Workers : upto'[v] = 0 /\ todo'[v] = {}
  <2>1. \A v \in Workers : upto[v] \in Nat
    BY <1>4
  <2> QED
    BY <1>1, <1>4, <2>1
<1>6. TailerTypeOK'
  <2>1. todo' \in [Workers -> SUBSET (Nat \X Lines)] /\ upto' \in [Workers -> Nat]
    BY <1>1, <1>4
  <2>2. faults' \in Nat
    BY <1>1 DEF TailerInv, TailerTypeOK
  <2> QED
    BY <1>1, <1>2, <2>1, <2>2 DEF TailerInv, TailerTypeOK
<1>7. FileShape'
  BY <1>1 DEF TailerInv, FileShape
<1>8. FileOrder'
  <2>1. NextKey' = NextKey
    BY <1>1 DEF NextKey
  <2>2. \A k \in DOMAIN handed' : Key(handed'[k][1]) < NextKey
    BY <1>3 DEF TailerInv, FileOrder
  <2> QED
    BY <1>1, <1>5, <2>1, <2>2 DEF TailerInv, FileOrder
<1>9. OneChunk'
  BY <1>5 DEF OneChunk
<1>10. NothingSkipped'
  <2>1. \A m : Reached(m) => Reached(m)'
    BY <1>3 DEF Reached
  <2>2. Len(file) \in Nat
    BY DEF TailerInv, TailerTypeOK
  <2>3. \A p \in DOMAIN file, v \in Workers : ~(p <= upto'[v])
    BY <1>5, <2>2 DEF TailerInv, TailerTypeOK
  <2> QED
    BY <1>1, <1>5, <2>1, <2>2, <2>3 DEF TailerInv, NothingSkipped
<1>11. InOrder'
  <2>1. faults' # 0
    BY <1>1 DEF TailerInv, TailerTypeOK
  <2> QED
    BY <2>1 DEF InOrder
<1> QED
  BY <1>6, <1>7, <1>8, <1>9, <1>10, <1>11 DEF TailerInv

\* The cursor moves to the end of the chunk, of which nothing is left to hand over.
LEMMA ChunkDoneKeeps ==
  ASSUME TailerInv, NEW w \in Workers, ChunkDone(w)
  PROVE  TailerInv'
<1>1. /\ upto[w] > 0 /\ todo[w] = {} /\ cursor' = upto[w] /\ saved' = upto[w]
      /\ lock' = "free" /\ upto' = [upto EXCEPT ![w] = 0]
      /\ UNCHANGED <<dir, owned, file, up, woken, dirEvent, todo, written, owed, half, handed,
                     faults, crashes, edits>>
  BY DEF ChunkDone, thread, paper, counts
<1>2. /\ upto \in [Workers -> Nat] /\ upto[w] \in Nat /\ cursor \in Int /\ cursor < upto[w]
      /\ lock = w /\ up /\ \A v \in Workers : v # w => ~(upto[v] > 0)
      /\ \A v \in Workers : todo[v] = {}
  <2>1. /\ upto \in [Workers -> Nat] /\ upto[w] \in Nat /\ cursor \in Int
    BY DEF TailerInv, TailerTypeOK, Unseen
  <2>2. lock = w /\ up /\ cursor < upto[w] /\ \A v \in Workers : v # w => ~(upto[v] > 0)
    BY <1>1 DEF TailerInv, OneChunk
  <2>3. \A v \in Workers : todo[v] = {}
    BY <1>1, <2>2 DEF TailerInv, OneChunk
  <2> QED
    BY <2>1, <2>2, <2>3
<1>3. \A v \in Workers : upto'[v] = 0 /\ (v # w => upto[v] = 0)
  <2>1. \A v \in Workers : upto[v] \in Nat
    BY <1>2
  <2> QED
    BY <1>1, <1>2, <2>1
<1>4. TailerTypeOK'
  <2>1. upto' \in [Workers -> Nat]
    BY <1>1, <1>2
  <2> QED
    BY <1>1, <1>2, <2>1 DEF TailerInv, TailerTypeOK
<1>5. FileShape' /\ FileOrder' /\ OneChunk'
  BY <1>1, <1>2, <1>3 DEF TailerInv, FileShape, FileOrder, OneChunk, NextKey
<1>6. NothingSkipped'
  <2> SUFFICES ASSUME crashes = 0, edits = 0 PROVE NothingSkipped'
    BY <1>1 DEF NothingSkipped
  <2>1. \A m : Reached(m)' <=> Reached(m)
    BY <1>1 DEF Reached
  <2>2. upto[w] <= Len(file) /\ Len(file) \in Nat
    BY DEF TailerInv, TailerTypeOK, NothingSkipped
  <2>3. ASSUME NEW p \in DOMAIN file, NEW m \in owed, file[p] = TailOf(m), p <= upto[w]
        PROVE  Reached(m)
    <3>1. p \in Nat /\ m \in Msgs
      BY DEF TailerInv, TailerTypeOK
    <3>2. CASE p <= cursor
      BY <2>3, <3>2 DEF TailerInv, NothingSkipped
    <3>3. CASE cursor < p
      <4>1. Reached(m) \/ \E l \in todo[w] : TailOf(m) \in Range(l[2])
        BY <2>3, <3>1, <3>3 DEF TailerInv, NothingSkipped
      <4> QED
        BY <1>1, <4>1
    <3> QED
      BY <1>2, <3>1, <3>2, <3>3
  <2>4. \A p \in DOMAIN file, v \in Workers : ~(p <= upto'[v])
    BY <1>3 DEF TailerInv, TailerTypeOK
  <2>5. \A v \in Workers : upto'[v] <= Len(file)
    BY <1>3, <2>2
  <2> QED
    BY <1>1, <1>2, <2>1, <2>2, <2>3, <2>4, <2>5 DEF NothingSkipped
<1>7. InOrder'
  <2> SUFFICES ASSUME faults = 0, crashes = 0,
                      NEW p \in DOMAIN file, Bare(file[p]), p > upto[w]
               PROVE  \A k \in DOMAIN handed : Before(handed[k], file[p])
    BY <1>1, <1>2 DEF TailerInv, InOrder, Before
  <2>1. p \in Nat /\ p > cursor
    BY <1>2 DEF TailerInv, TailerTypeOK
  <2>2. \A v \in Workers : p > upto[v]
    BY <1>2, <1>3, <2>1
  <2> QED
    BY <2>1, <2>2 DEF TailerInv, InOrder
<1> QED
  BY <1>4, <1>5, <1>6, <1>7 DEF TailerInv

LEMMA StartKeeps == ASSUME TailerInv, Start PROVE TailerInv'
<1>1. /\ ~up /\ up'
      /\ cursor' = IF saved = Unseen /\ owned /\ file # <<>> THEN Len(file) ELSE saved
      /\ saved' = cursor'
      /\ UNCHANGED <<dir, owned, file, woken, dirEvent, lock, todo, upto, written, owed, half,
                     handed, faults, crashes, edits>>
  BY DEF Start, thread, paper, counts
<1>2. Len(file) \in Nat /\ cursor' \in Nat \cup {Unseen} /\ (cursor' = Len(file) \/ cursor' = saved)
  BY <1>1 DEF TailerInv, TailerTypeOK
<1>3. \A v \in Workers : upto[v] = 0 /\ todo[v] = {}
  <2>1. \A v \in Workers : upto[v] \in Nat /\ ~(upto[v] > 0)
    BY <1>1 DEF TailerInv, TailerTypeOK, OneChunk
  <2> QED
    BY <2>1 DEF TailerInv, OneChunk
<1>4. TailerTypeOK'
  BY <1>1, <1>2 DEF TailerInv, TailerTypeOK
<1>5. FileShape' /\ FileOrder'
  BY <1>1 DEF TailerInv, FileShape, FileOrder, NextKey
<1>6. OneChunk'
  BY <1>1, <1>3 DEF OneChunk
<1>7. NothingSkipped'
  <2> SUFFICES ASSUME crashes = 0, edits = 0 PROVE NothingSkipped'
    BY <1>1 DEF NothingSkipped
  <2>1. owed = {} /\ saved <= Len(file)
    BY <1>1 DEF TailerInv, NothingSkipped
  <2>2. cursor' <= Len(file)
    BY <1>2, <2>1
  <2>3. \A p \in DOMAIN file, v \in Workers : ~(p <= upto'[v])
    BY <1>1, <1>3 DEF TailerInv, TailerTypeOK
  <2>4. \A v \in Workers : upto'[v] <= Len(file)
    BY <1>1, <1>2, <1>3
  <2> QED
    BY <1>1, <2>1, <2>2, <2>3, <2>4 DEF NothingSkipped
<1>8. InOrder'
  <2> SUFFICES ASSUME faults = 0, crashes = 0,
                      NEW p \in DOMAIN file, Bare(file[p]), \A v \in Workers : p > upto[v]
               PROVE  \A k \in DOMAIN handed : Before(handed[k], file[p])
    BY <1>1, <1>3 DEF TailerInv, InOrder, Before
  <2>1. cursor = Unseen
    BY <1>1 DEF TailerInv, InOrder
  <2>2. p > cursor
    BY <2>1 DEF Unseen, TailerInv, TailerTypeOK
  <2> QED
    BY <2>2 DEF TailerInv, InOrder
<1> QED
  BY <1>4, <1>5, <1>6, <1>7, <1>8 DEF TailerInv

\* The file is emptied, whatever the driver was in the middle of.
LEMMA TruncateKeeps == ASSUME TailerInv, Truncate PROVE TailerInv'
<1>1. /\ half = 0 /\ file' = <<>> /\ woken' = (woken \/ up) /\ edits' = edits + 1
      /\ UNCHANGED <<dir, owned, saved, up, cursor, dirEvent, lock, todo, upto, written, owed, half,
                     handed, faults, crashes>>
  BY DEF Truncate, thread, paper, memory
<1>2. DOMAIN file' = {} /\ Len(file') = 0 /\ file' \in Seq(Pieces)
  BY <1>1
<1>3. edits' \in Nat /\ edits' # 0 /\ woken' \in BOOLEAN
  <2>1. woken' \in BOOLEAN
    BY <1>1 DEF TailerInv, TailerTypeOK
  <2> QED
    BY <1>1, <2>1 DEF TailerInv, TailerTypeOK
<1>4. TailerTypeOK'
  BY <1>1, <1>2, <1>3 DEF TailerInv, TailerTypeOK
<1>5. FileShape' /\ OneChunk'
  BY <1>1, <1>2 DEF TailerInv, FileShape, OneChunk
<1>6. FileOrder'
  <2>1. NextKey' = NextKey
    BY <1>1 DEF NextKey
  <2> QED
    BY <1>1, <1>2, <2>1 DEF TailerInv, FileOrder
<1>7. NothingSkipped'
  BY <1>3 DEF NothingSkipped
<1>8. InOrder'
  BY <1>1, <1>2 DEF TailerInv, InOrder, Before
<1> QED
  BY <1>4, <1>5, <1>6, <1>7, <1>8 DEF TailerInv

LEMMA CrashKeeps == ASSUME TailerInv, Crash PROVE TailerInv'
<1>1. /\ crashes' = crashes + 1
      /\ up' = FALSE /\ cursor' = Unseen /\ woken' = FALSE /\ dirEvent' = FALSE
      /\ lock' = "free" /\ todo' = [w \in Workers |-> {}] /\ upto' = [w \in Workers |-> 0]
      /\ UNCHANGED <<dir, owned, file, saved, written, owed, half, handed, faults, edits>>
  BY DEF Crash, thread, paper
<1>2. crashes' \in Nat /\ crashes' # 0
  BY <1>1 DEF TailerInv, TailerTypeOK
<1>3. TailerTypeOK'
  BY <1>1, <1>2 DEF TailerInv, TailerTypeOK
<1>4. FileShape' /\ FileOrder'
  BY <1>1 DEF TailerInv, FileShape, FileOrder, NextKey
<1>5. OneChunk' /\ NothingSkipped' /\ InOrder'
  BY <1>1, <1>2 DEF OneChunk, NothingSkipped, InOrder
<1> QED
  BY <1>3, <1>4, <1>5 DEF TailerInv

-----------------------------------------------------------------------------
(* The theorems.                                                           *)

LEMMA TailerInit == Init => TailerInv
<1> SUFFICES ASSUME Init PROVE TailerInv
  OBVIOUS
<1>1. TailerTypeOK
  <2>1. dir \in BOOLEAN /\ owned \in BOOLEAN
    BY DEF Init
  <2>2. file \in Seq(Pieces) /\ written \in Seq(Msgs) /\ handed \in Seq(Lines)
    BY DEF Init
  <2>3. /\ todo \in [Workers -> SUBSET (Nat \X Lines)] /\ upto \in [Workers -> Nat]
        /\ owed \subseteq Msgs
    BY DEF Init
  <2> QED
    BY <2>1, <2>2, <2>3 DEF Init, TailerTypeOK
<1>2. FileShape /\ FileOrder /\ OneChunk /\ NothingSkipped /\ InOrder
  BY DEF Init, FileShape, FileOrder, OneChunk, NothingSkipped, InOrder, Unseen
<1> QED
  BY <1>1, <1>2 DEF TailerInv

\* The writers' steps.
LEMMA WritersKeep ==
  ASSUME TailerInv,
         LogInbound \/ \E m \in Msgs : WriteLine(m) \/ WriteHead(m) \/ WriteTail(m)
  PROVE  TailerInv'
<1>1. /\ UNCHANGED <<saved, up, cursor, lock, todo, upto, handed, faults, crashes, edits>>
      /\ UNCHANGED <<dir, owned, dirEvent>> /\ woken' = (woken \/ up)
  BY DEF LogInbound, WriteLine, WriteHead, WriteTail, Grow, thread, memory, counts, paper
<1>2. /\ file' \in Seq(Pieces) /\ FileShape' /\ Grown
      /\ \A m \in owed' : m \in owed \/ (m \in Msgs /\ m > Len(written) /\ up)
      /\ written' \in Seq(Msgs) /\ half' \in Msgs \cup {0}
  <2>1. CASE LogInbound
    BY <2>1, LogGrows DEF LogInbound, Grow, paper, TailerInv, TailerTypeOK
  <2>2. ASSUME NEW m \in Msgs, WriteLine(m) \/ WriteTail(m)
        PROVE  /\ \A n \in owed' : n \in owed \/ (n \in Msgs /\ n > Len(written) /\ up)
               /\ written' = Append(written, m) /\ written' \in Seq(Msgs)
    <3>1. Completed(m)
      BY <2>2 DEF WriteLine, WriteTail
    <3>2. m = Len(written) + 1 /\ Len(written) \in Nat
      <4>1. Len(written) \in Nat /\ m # 0
        BY NextKeyIs, TailerAssumption DEF TailerInv, TailerAssumption
      <4>2. CASE WriteLine(m)
        BY <4>1, <4>2 DEF WriteLine, IsNext
      <4>3. CASE WriteTail(m)
        BY <4>1, <4>3 DEF WriteTail, TailerInv, FileShape
      <4> QED
        BY <2>2, <4>1, <4>2, <4>3
    <3>3. owed' = owed \/ (owed' = owed \cup {m} /\ up)
      BY <3>1 DEF Completed
    <3>4. m > Len(written)
      BY <3>2
    <3>5. written' = Append(written, m) /\ written' \in Seq(Msgs)
      BY <3>1 DEF Completed, TailerInv, TailerTypeOK
    <3> QED
      BY <3>3, <3>4, <3>5
  <2>3. CASE \E m \in Msgs : WriteLine(m)
    <3>1. PICK m \in Msgs : WriteLine(m)
      BY <2>3
    <3>2. /\ m = Len(written) + 1 /\ half = 0 /\ half' = half
          /\ file' = file \o (Whole(m) \o <<NL>>)
      BY <3>1 DEF WriteLine, IsNext, Grow
    <3> QED
      BY <2>2, <3>1, <3>2, LineGrows DEF TailerInv
  <2>4. CASE \E m \in Msgs : WriteTail(m)
    <3>1. PICK m \in Msgs : WriteTail(m)
      BY <2>4
    <3>2. half = m /\ half' = 0 /\ file' = file \o <<TailOf(m), NL>>
      BY <3>1 DEF WriteTail, Grow
    <3> QED
      BY <2>2, <3>1, <3>2, TailGrows DEF TailerInv
  <2>5. CASE \E m \in Msgs : WriteHead(m)
    <3>1. PICK m \in Msgs : WriteHead(m)
      BY <2>5
    <3>2. /\ m = Len(written) + 1 /\ half = 0 /\ half' = m /\ file' = file \o <<HeadOf(m)>>
          /\ UNCHANGED <<written, owed>>
      BY <3>1 DEF WriteHead, IsNext, Grow, paper
    <3>3. file' \in Seq(Pieces) /\ FileShape' /\ Grown
      BY <3>1, <3>2, HeadGrows DEF TailerInv
    <3> QED
      BY <3>2, <3>3 DEF TailerInv, TailerTypeOK
  <2> QED
    BY <2>1, <2>3, <2>4, <2>5
<1>3. TailerTypeOK'
  <2>1. owed' \subseteq Msgs /\ woken' \in BOOLEAN
    BY <1>1, <1>2 DEF TailerInv, TailerTypeOK
  <2> QED
    BY <1>1, <1>2, <2>1 DEF TailerInv, TailerTypeOK
<1> QED
  BY <1>1, <1>2, <1>3, WriterKeeps DEF TailerInv

\* Both tasks start a drain alike.
LEMMA DrainsKeep == ASSUME TailerInv, FileEvent \/ DirEvent PROVE TailerInv'
<1>1. /\ lock = "free" /\ up /\ UNCHANGED <<dir, file, up, written, owed, half, handed>>
      /\ UNCHANGED <<faults, crashes, edits>>
      /\ owned' \in BOOLEAN /\ woken' \in BOOLEAN /\ dirEvent' \in BOOLEAN
  BY DEF FileEvent, DirEvent, TailerInv, TailerTypeOK, thread, paper, counts
<1>2. (\E w \in Workers : Drain(w)) \/ UNCHANGED <<cursor, saved, lock, todo, upto>>
  <2>1. "files" \in Workers /\ "dirs" \in Workers
    BY DEF Workers
  <2>2. Drain("files") \/ Drain("dirs") \/ UNCHANGED <<cursor, saved, lock, todo, upto>>
    BY DEF FileEvent, DirEvent
  <2> QED
    BY <2>1, <2>2
<1>3. MemoryTypeOK' /\ FileOrder' /\ OneChunk' /\ NothingSkipped' /\ InOrder'
  <2>1. CASE \E w \in Workers : Drain(w)
    BY <1>1, <2>1, DrainKeeps
  <2>2. CASE UNCHANGED <<cursor, saved, lock, todo, upto>>
    <3>1. \A m : Reached(m)' <=> Reached(m)
      BY <1>1 DEF Reached
    <3> QED
      BY <1>1, <2>2, <3>1 DEF TailerInv, TailerTypeOK, MemoryTypeOK, FileOrder, NextKey, OneChunk,
                             NothingSkipped, InOrder, Before
  <2> QED
    BY <1>2, <2>1, <2>2
<1>4. TailerTypeOK'
  BY <1>1, <1>3 DEF MemoryTypeOK, TailerInv, TailerTypeOK
<1>5. FileShape'
  BY <1>1 DEF TailerInv, FileShape
<1> QED
  BY <1>3, <1>4, <1>5 DEF TailerInv

LEMMA LineDoneKeepsAll == ASSUME TailerInv, NEW w \in Workers, LineDone(w) PROVE TailerInv'
<1>1. /\ file' = file \o <<LOG, NL>> /\ woken' = (woken \/ up)
      /\ UNCHANGED <<dir, owned, saved, up, cursor, dirEvent, written, owed, half, faults, crashes, edits>>
  BY DEF LineDone, Grow, thread, paper, counts
<1>2. file' \in Seq(Pieces) /\ FileShape' /\ Grown
  BY <1>1, LogGrows DEF TailerInv
<1>3. /\ handed' \in Seq(Lines) /\ MemoryTypeOK'
      /\ FileOrder' /\ OneChunk' /\ NothingSkipped' /\ InOrder'
  BY <1>2, LineDoneKeeps
<1>4. woken' \in BOOLEAN
  BY <1>1 DEF TailerInv, TailerTypeOK
<1>5. TailerTypeOK'
  BY <1>1, <1>2, <1>3, <1>4 DEF MemoryTypeOK, TailerInv, TailerTypeOK
<1> QED
  BY <1>2, <1>3, <1>5 DEF TailerInv

LEMMA TailerStep == TailerInv /\ [Next]_vars => TailerInv'
<1> SUFFICES ASSUME TailerInv, [Next]_vars PROVE TailerInv'
  OBVIOUS
<1>1. CASE MakeThread
  <2>1. UNCHANGED <<file, saved, up, cursor, woken, lock, todo, upto, written, owed, half, handed,
                    faults, crashes, edits, owned>> /\ dir' = TRUE /\ dirEvent' = up
    BY <1>1 DEF MakeThread, paper, counts
  <2>2. TailerTypeOK'
    BY <2>1 DEF TailerInv, TailerTypeOK
  <2>3. NothingSkipped'
    <3>1. \A m : Reached(m)' <=> Reached(m)
      BY <2>1 DEF Reached
    <3> QED
      BY <2>1, <3>1 DEF TailerInv, NothingSkipped
  <2>4. FileShape' /\ FileOrder' /\ OneChunk' /\ InOrder'
    BY <2>1 DEF TailerInv, FileShape, FileOrder, NextKey, OneChunk, InOrder, Before
  <2> QED
    BY <2>2, <2>3, <2>4 DEF TailerInv
<1>2. CASE UNCHANGED vars
  <2>1. \A m : Reached(m)' <=> Reached(m)
    BY <1>2 DEF Reached, vars
  <2>2. TailerTypeOK' /\ NothingSkipped'
    BY <1>2, <2>1 DEF TailerInv, TailerTypeOK, NothingSkipped, vars
  <2>3. FileShape' /\ FileOrder' /\ OneChunk' /\ InOrder'
    BY <1>2 DEF TailerInv, FileShape, FileOrder, NextKey, OneChunk, InOrder, Before, vars
  <2> QED
    BY <2>2, <2>3 DEF TailerInv
<1> QED
  BY <1>1, <1>2, WritersKeep, TruncateKeeps, CrashKeeps, LineRaisesKeeps, StartKeeps, DrainsKeep,
     LineDoneKeepsAll, ChunkDoneKeeps DEF Next, Driver

\* The variables keep their types: the lines in the tasks' hands and the lines handed over
\* are complete, never a bare first half.
THEOREM TailerTypeCorrect == Spec => []TailerTypeOK
<1>1. TailerInv => TailerTypeOK
  BY DEF TailerInv
<1> QED
  BY <1>1, TailerInit, TailerStep, PTL DEF Spec

\* As long as the kernel does not die and nobody empties the file, the cursor passes no line
\* completed while the driver ran that on_line was not given, exceptions or not.
THEOREM NoLineIsSkipped == Spec => []CursorSkipsNothing
<1>1. TailerInv => CursorSkipsNothing
  BY DEF TailerInv, NothingSkipped, CursorSkipsNothing, TailerTypeOK
<1> QED
  BY <1>1, TailerInit, TailerStep, PTL DEF Spec

\* on_line gets no line without its newline; as long as nothing fails it gets none twice and
\* the lines in the order of the file, whichever task drains it and whoever empties it.
THEOREM LinesComeOnceInOrder == Spec => []HandedOnceInOrder
<1>1. ASSUME TailerInv PROVE HandedOnceInOrder
  <2>1. \A k \in DOMAIN handed, m \in Msgs : handed[k] # <<HeadOf(m)>>
    BY <1>1, KeysAreNumbers DEF TailerInv, Lines
  <2>2. ASSUME faults = 0, crashes = 0, NEW j \in DOMAIN handed, NEW k \in DOMAIN handed, j < k
        PROVE  handed[j] # handed[k] /\ handed[j][1][2] <= handed[k][1][2]
    <3>1. Key(handed[j][1]) < Key(handed[k][1]) /\ Key(handed[j][1]) \in Nat
      BY <1>1, <2>2, KeysAreNumbers DEF TailerInv, InOrder, Before
    <3>2. handed[j] # handed[k]
      BY <3>1
    <3>3. \A i \in DOMAIN handed : \E m \in Msgs :
            handed[i][1] = HeadOf(m) \/ handed[i][1] = TailOf(m)
      <4>1. \A i \in DOMAIN handed : handed[i][1] \in Pieces /\ Bare(handed[i][1])
        BY <1>1, KeysAreNumbers DEF TailerInv, Lines
      <4> QED
        BY <4>1, PieceFacts
    <3>4. \A i \in DOMAIN handed : \E m \in Msgs :
            handed[i][1][2] = m /\ (Key(handed[i][1]) = 2 * m \/ Key(handed[i][1]) = 2 * m + 1)
      <4>1. \A m \in Msgs : HeadOf(m)[2] = m /\ TailOf(m)[2] = m
        BY DEF HeadOf, TailOf
      <4> QED
        BY <3>3, <4>1, PieceFacts
    <3>5. PICK a \in Msgs : handed[j][1][2] = a /\ (Key(handed[j][1]) = 2 * a \/ Key(handed[j][1]) = 2 * a + 1)
      BY <3>4
    <3>6. PICK b \in Msgs : handed[k][1][2] = b /\ (Key(handed[k][1]) = 2 * b \/ Key(handed[k][1]) = 2 * b + 1)
      BY <3>4
    <3>7. a \in Nat /\ b \in Nat
      BY TailerAssumption DEF TailerAssumption
    <3>8. a <= b
      BY <3>1, <3>5, <3>6, <3>7
    <3> QED
      BY <3>2, <3>5, <3>6, <3>8
  <2> QED
    BY <2>1, <2>2 DEF HandedOnceInOrder
<1> QED
  BY <1>1, TailerInit, TailerStep, PTL DEF Spec
=============================================================================
