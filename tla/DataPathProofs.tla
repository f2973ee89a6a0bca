---------------------------- MODULE DataPathProofs ----------------------------
(***************************************************************************)
(* Proofs about DataPath, for any uploads, runs, requests and pages: what  *)
(* the bank's files hold and its readers see (BankInv), and that what the  *)
(* two APIs answer is committed (ReadInv).                                 *)
(***************************************************************************)
EXTENDS DataPath, SequenceTheorems, TLAPS

(* What a file of a kind may consist of.                                   *)
Pieces(kind) == {Hole} \cup UNION {Range(Content[u][kind]) : u \in Uploads}

(* These pieces are the beginning of those rows.                           *)
Begins(pieces, rows) ==
  Len(pieces) <= Len(rows) /\ \A i \in 1..Len(pieces) : pieces[i] = rows[i]

-----------------------------------------------------------------------------
(* Sequences of pieces.                                                    *)

(* What an upload brings are pieces.                                       *)
LEMMA ContentIsPieces ==
  ASSUME NEW u \in Uploads, NEW k \in Kinds
  PROVE  /\ Content[u][k] \in Seq(Pieces(k)) /\ Len(Content[u][k]) \in Nat
         /\ \A i \in 1..Len(Content[u][k]) : Content[u][k][i] \in Pieces(k) \ {Hole}
<1> DEFINE rows == Content[u][k]
           R == Range(Content[u][k]) \ {Hole}
<1>1. rows \in Seq(R) BY ContentAssumption
<1>2. R \subseteq Pieces(k) /\ Hole \notin R
  BY DEF Pieces
<1> HIDE DEF rows, R
<1>3. rows \in Seq(Pieces(k)) BY <1>1, <1>2, SeqMonotonic
<1>4. Len(rows) \in Nat /\ \A i \in 1..Len(rows) : rows[i] \in R
  BY <1>1, LenProperties, ElementOfSeq
<1> QED BY <1>2, <1>3, <1>4 DEF rows

(* The beginning of a sequence, as its prefix, ...                         *)
LEMMA BeginsIsPrefix ==
  ASSUME NEW S, NEW s \in Seq(S), NEW t \in Seq(S), Begins(s, t)
  PROVE  IsPrefix(s, t)
<1>1. Len(s) \in Nat /\ Len(t) \in Nat /\ Len(s) <= Len(t)
  BY LenProperties DEF Begins
<1>2. \A i \in 1..Len(s) : s[i] \in S /\ t[i] \in S /\ s[i] = t[i]
  BY <1>1, ElementOfSeq DEF Begins
<1> DEFINE a == SubSeq(s, 1, Len(s))
           b == SubSeq(t, 1, Len(s))
<1>3. /\ a \in Seq(S) /\ Len(a) = Len(s) /\ \A i \in 1..Len(s) : a[i] = s[i]
      /\ b \in Seq(S) /\ Len(b) = Len(s) /\ \A i \in 1..Len(s) : b[i] = t[i]
  <2> DEFINE n == Len(s)
  <2>1. n \in Int /\ 1 \in Int /\ n \in Nat BY <1>1
  <2>2. \A i \in 1..n : s[i] \in S /\ t[i] \in S BY <1>2
  <2> HIDE DEF n
  <2>3. /\ SubSeq(s, 1, n) \in Seq(S) /\ SubSeq(t, 1, n) \in Seq(S)
        /\ Len(SubSeq(s, 1, n)) = IF 1 <= n THEN n - 1 + 1 ELSE 0
        /\ Len(SubSeq(t, 1, n)) = IF 1 <= n THEN n - 1 + 1 ELSE 0
        /\ \A i \in 1..(n - 1 + 1) : SubSeq(s, 1, n)[i] = s[1 + i - 1]
        /\ \A i \in 1..(n - 1 + 1) : SubSeq(t, 1, n)[i] = t[1 + i - 1]
    BY <2>1, <2>2, SubSeqProperties
  <2>4. \A i \in 1..n : i \in 1..(n - 1 + 1) /\ 1 + i - 1 = i BY <2>1
  <2> QED BY <2>1, <2>3, <2>4 DEF n
<1> HIDE DEF a, b
<1>4. a = b BY <1>2, <1>3, SeqEqual
<1> QED BY <1>1, <1>4 DEF IsPrefix, a, b

(* ... with the next element, ...                                          *)
LEMMA BeginsGrows ==
  ASSUME NEW S, NEW s \in Seq(S), NEW t \in Seq(S), Begins(s, t), Len(s) < Len(t)
  PROVE  /\ Append(s, t[Len(s) + 1]) \in Seq(S)
         /\ Len(Append(s, t[Len(s) + 1])) = Len(s) + 1
         /\ Begins(Append(s, t[Len(s) + 1]), t)
<1>1. Len(s) \in Nat /\ Len(t) \in Nat BY LenProperties
<1>2. t[Len(s) + 1] \in S BY <1>1, ElementOfSeq
<1> DEFINE e == t[Len(s) + 1]
           a == Append(s, e)
<1>3. /\ a \in Seq(S) /\ Len(a) = Len(s) + 1 /\ a[Len(s) + 1] = e
      /\ \A i \in 1..Len(s) : a[i] = s[i]
  <2> HIDE DEF e
  <2>1. e \in S BY <1>2 DEF e
  <2> QED BY <2>1, AppendProperties
<1> HIDE DEF a
<1>4. \A i \in 1..Len(a) : a[i] = t[i]
  BY <1>1, <1>3 DEF Begins
<1>5. Len(a) <= Len(t) BY <1>1, <1>3
<1> QED BY <1>3, <1>4, <1>5 DEF Begins, a

(* ... and the whole of it.                                                *)
LEMMA BeginsEnds ==
  ASSUME NEW S, NEW s \in Seq(S), NEW t \in Seq(S), Begins(s, t), ~(Len(s) < Len(t))
  PROVE  s = t
<1>1. Len(s) \in Nat /\ Len(t) \in Nat BY LenProperties
<1>2. Len(s) = Len(t) /\ \A i \in 1..Len(s) : s[i] = t[i] BY <1>1 DEF Begins
<1> QED BY <1>2, SeqEqual

(* A write leaves a file, and at the end of the file it appends.           *)
LEMMA WrittenIsFile ==
  ASSUME NEW S, NEW pieces \in Seq(S), NEW at \in Nat, NEW piece \in S, Hole \in S
  PROVE  /\ Written(pieces, at, piece) \in Seq(S)
         /\ at = Len(pieces) => Written(pieces, at, piece) = Append(pieces, piece)
<1> DEFINE n == IF Len(pieces) > at THEN Len(pieces) ELSE at + 1
           w == Written(pieces, at, piece)
<1>1. Len(pieces) \in Nat /\ \A i \in 1..Len(pieces) : pieces[i] \in S
  BY LenProperties, ElementOfSeq
<1>2. n \in Nat BY <1>1
<1>3. w = [i \in 1..n |-> IF i = at + 1 THEN piece ELSE IF i <= Len(pieces) THEN pieces[i] ELSE Hole]
  BY DEF Written
<1>4. \A i \in 1..n : w[i] \in S
  <2> HIDE DEF n, w
  <2> QED BY <1>1, <1>2, <1>3
<1>5. w \in Seq(S)
  <2> HIDE DEF n, w
  <2>1. w \in [1..n -> S] BY <1>3, <1>4
  <2> QED BY <1>2, <2>1, SeqDef
<1>6. ASSUME at = Len(pieces) PROVE w = Append(pieces, piece)
  <2> DEFINE a == Append(pieces, piece)
  <2>1. /\ a \in Seq(S) /\ Len(a) = Len(pieces) + 1 /\ a[Len(pieces) + 1] = piece
        /\ \A i \in 1..Len(pieces) : a[i] = pieces[i]
    BY AppendProperties
  <2>2. n = Len(pieces) + 1 BY <1>1, <1>6
  <2>3. DOMAIN w = 1..n /\ Len(w) = n
    <3> HIDE DEF n, w
    <3> QED BY <1>2, <1>3, <1>5, LenProperties
  <2>4. \A i \in 1..n : w[i] = a[i]
    <3> HIDE DEF n, w, a
    <3> QED BY <1>1, <1>3, <1>6, <2>1, <2>2
  <2> HIDE DEF n, w, a
  <2> QED BY <1>5, <2>1, <2>2, <2>3, <2>4, SeqEqual
<1> QED BY <1>5, <1>6

-----------------------------------------------------------------------------
(* The bank's files and their readers.                                     *)

FilesOK ==
  /\ BankTypeOK
  /\ \A k \in DOMAIN file : file[k] \in Seq(Pieces(k))
  /\ DOMAIN got = Readers
  /\ \A r \in Readers : \A k \in DOMAIN got[r] : got[r][k] \in Seq(Pieces(k))

(* What the upload that began last has achieved if nobody got in its way.  *)
Achieved(u) ==
  /\ upc[u] \in Kinds =>
       /\ upc[u] \in DOMAIN file /\ off[u] = Len(file[upc[u]])
       /\ Begins(file[upc[u]], Content[u][upc[u]])
  /\ upc[u] \in {"open payments", "payments", "record", "done"} =>
       "credits" \in DOMAIN file /\ file["credits"] = Content[u]["credits"]
  /\ upc[u] \in {"record", "done"} =>
       "payments" \in DOMAIN file /\ file["payments"] = Content[u]["payments"]
  /\ upc[u] = "done" => \A k \in Kinds : recorded[k] = Len(Content[u][k])

WriterInv ==
  /\ \A u \in Busy : u # latest => latest \in overlapped
  /\ latest # NoUpload /\ latest \notin overlapped => Achieved(latest)
  /\ overlapped = {} =>
       \A k \in DOMAIN file : \E u \in Uploads : Begins(file[k], Content[u][k])

(* A reader that saw an upload at rest, and none since, still sees it so,  *)
(* and has read the beginning of its rows, all of them in the end.         *)
ReaderInv(r) ==
  /\ rpc[r] = "idle" => DOMAIN got[r] = {}
  /\ rpc[r] \in Kinds => rpc[r] \in DOMAIN got[r]
  /\ base[r] # NoUpload /\ rpc[r] \in Reading => base[r] = AtRest
  /\ base[r] # NoUpload /\ rpc[r] \in Reading \cup {"done"} =>
       \A k \in DOMAIN got[r] :
         IF k = rpc[r] THEN Begins(got[r][k], Content[base[r]][k])
         ELSE got[r][k] = Content[base[r]][k]

BankInv == FilesOK /\ WriterInv /\ \A r \in Readers : ReaderInv(r)

(* While an upload is under way no reader begins at rest, and readers that *)
(* saw an upload at rest have ended.                                       *)
LEMMA BusyIsNoRest ==
  ASSUME BankInv, NEW u \in Busy
  PROVE  /\ AtRest = NoUpload
         /\ latest # NoUpload /\ latest \notin overlapped => u = latest
         /\ overlapped = {} => u = latest
  BY DEF BankInv, WriterInv, AtRest, Busy, UploadBusy

LEMMA ReadersOutlast ==
  ASSUME BankInv, NEW u \in Busy, UNCHANGED <<readerVars, base>>
  PROVE  \A r \in Readers : ReaderInv(r)'
<1>1. AtRest = NoUpload BY BusyIsNoRest
<1> QED BY <1>1 DEF BankInv, ReaderInv, readerVars

(* The upload that is under way moves: the type of everything else.        *)
LEMMA UploadMoves ==
  ASSUME BankInv, NEW u \in Uploads, NEW at \in UploadPoints, upc' = [upc EXCEPT ![u] = at]
  PROVE  /\ upc' \in [Uploads -> UploadPoints] /\ upc'[u] = at
         /\ \A v \in Uploads : v # u => upc'[v] = upc[v]
         /\ u \in Busy => Busy' \subseteq Busy
  BY DEF BankInv, FilesOK, BankTypeOK, Busy

(* A new upload: whoever runs beside it overlaps.                          *)
LEMMA UploadStartsKeeps ==
  ASSUME BankInv, NEW u \in Uploads, UploadStarts(u)
  PROVE  BankInv'
<1>0. FilesOK /\ WriterInv /\ \A r \in Readers : ReaderInv(r) BY DEF BankInv
<1>1. /\ upc' = [upc EXCEPT ![u] = "open credits"] /\ "open credits" \in UploadPoints
      /\ upc[u] = "idle" /\ latest' = u /\ UNCHANGED <<file, off, recorded, readerVars>>
      /\ overlapped' = IF Busy = {} THEN overlapped ELSE overlapped \cup Busy \cup {u}
      /\ base' = [r \in Readers |-> IF rpc[r] \in Reading THEN NoUpload ELSE base[r]]
      /\ starts + 1 <= MaxStarts /\ starts' = starts + 1
  BY DEF UploadStarts, UploadAt, Started, UploadPoints
<1>2. /\ upc' \in [Uploads -> UploadPoints] /\ upc'[u] = "open credits"
      /\ \A v \in Uploads : v # u => upc'[v] = upc[v]
  BY <1>1, UploadMoves
<1>3. FilesOK'
  <2>1. overlapped' \subseteq Uploads BY <1>0, <1>1 DEF FilesOK, BankTypeOK, Busy
  <2>2. starts' \in 0..MaxStarts
    <3>1. starts \in 0..MaxStarts BY <1>0 DEF FilesOK, BankTypeOK
    <3>2. starts + 1 <= MaxStarts /\ starts' = starts + 1 BY <1>1
    <3> QED BY <3>1, <3>2, StartsAssumption
  <2> QED BY <1>0, <1>1, <1>2, <2>1, <2>2 DEF FilesOK, BankTypeOK, readerVars
<1>4. WriterInv'
  <2>1. \A v \in Busy' : v # u => u \in overlapped'
    BY <1>1, <1>2 DEF Busy
  <2>2. Achieved(u)' BY <1>2 DEF Achieved, Kinds
  <2>3. overlapped' = {} => overlapped = {} BY <1>1
  <2> QED BY <1>0, <1>1, <2>1, <2>2, <2>3 DEF WriterInv
<1>5. \A r \in Readers : ReaderInv(r)'
  BY <1>0, <1>1 DEF ReaderInv, readerVars
<1> QED BY <1>3, <1>4, <1>5 DEF BankInv

(* The file is created or emptied.                                         *)
LEMMA OpenForWritingKeeps ==
  ASSUME BankInv, NEW u \in Uploads, NEW kind \in Kinds, OpenForWriting(u, kind)
  PROVE  BankInv'
<1>0. FilesOK /\ WriterInv BY DEF BankInv
<1>1. /\ upc' = [upc EXCEPT ![u] = kind] /\ kind \in UploadPoints /\ u \in Busy
      /\ upc[u] = OpenPoint(kind) /\ off' = [off EXCEPT ![u] = 0] /\ file' = Emptied(file, kind)
      /\ UNCHANGED <<recorded, overlapped, latest, readerVars, starts, base>>
  BY DEF OpenForWriting, OpenPoint, Busy, UploadBusy, UploadPoints, Kinds
<1>2. /\ upc' \in [Uploads -> UploadPoints] /\ upc'[u] = kind
      /\ \A v \in Uploads : v # u => upc'[v] = upc[v]
      /\ Busy' \subseteq Busy
  BY <1>1, UploadMoves
<1>3. /\ DOMAIN file' = DOMAIN file \cup {kind} /\ file'[kind] = <<>>
      /\ \A k \in DOMAIN file : k # kind => file'[k] = file[k]
  BY <1>1 DEF Emptied
<1>4. <<>> \in Seq(Pieces(kind)) /\ Len(<<>>) = 0 BY EmptySeq
<1>5. FilesOK'
  BY <1>0, <1>1, <1>2, <1>3, <1>4 DEF FilesOK, BankTypeOK, readerVars
<1>6. Begins(file'[kind], Content[u][kind])
  BY <1>3, <1>4, ContentIsPieces DEF Begins
<1>7. WriterInv'
  <2>1. ASSUME latest # NoUpload /\ latest \notin overlapped PROVE Achieved(latest)'
    <3>1. u = latest /\ Achieved(u) BY <1>0, <1>1, <2>1, BusyIsNoRest DEF WriterInv
    <3>2. kind \in DOMAIN file' /\ off'[u] = Len(file'[kind])
      BY <1>0, <1>1, <1>3, <1>4 DEF FilesOK, BankTypeOK
    <3>3. CASE kind = "credits" BY <1>1, <1>2, <1>6, <3>1, <3>2, <3>3 DEF Achieved
    <3>4. CASE kind = "payments"
      <4>1. "credits" \in DOMAIN file' /\ file'["credits"] = Content[u]["credits"]
        BY <1>1, <1>3, <3>1, <3>4 DEF Achieved, OpenPoint
      <4> QED BY <1>1, <1>2, <1>6, <3>1, <3>2, <3>4, <4>1 DEF Achieved
    <3> QED BY <3>3, <3>4 DEF Kinds
  <2>2. overlapped = {} => \A k \in DOMAIN file' : \E v \in Uploads : Begins(file'[k], Content[v][k])
    BY <1>0, <1>3, <1>6 DEF WriterInv
  <2> QED BY <1>0, <1>1, <1>2, <2>1, <2>2 DEF WriterInv
<1> QED BY <1>1, <1>5, <1>7, ReadersOutlast DEF BankInv

(* A chunk goes where the handle's offset is.                              *)
LEMMA WriteChunkKeeps ==
  ASSUME BankInv, NEW u \in Uploads, NEW kind \in Kinds, WriteChunk(u, kind)
  PROVE  BankInv'
<1>0. FilesOK /\ WriterInv BY DEF BankInv
<1> DEFINE rows == Content[u][kind]
           piece == rows[off[u] + 1]
<1>1. /\ u \in Busy /\ upc[u] = kind /\ off[u] < Len(rows)
      /\ file' = [file EXCEPT ![kind] = Written(file[kind], off[u], piece)]
      /\ off' = [off EXCEPT ![u] = off[u] + 1]
      /\ UNCHANGED <<upc, recorded, overlapped, latest, readerVars, starts, base>>
  BY DEF WriteChunk, Busy, UploadBusy, UploadPoints, Kinds
<1>2. off[u] \in Nat /\ rows \in Seq(Pieces(kind)) /\ Len(rows) \in Nat /\ piece \in Pieces(kind)
      /\ Hole \in Pieces(kind)
  <2>1. off[u] \in Nat BY <1>0 DEF FilesOK, BankTypeOK
  <2>2. rows \in Seq(Pieces(kind)) /\ Len(rows) \in Nat BY ContentIsPieces
  <2>3. off[u] + 1 \in 1..Len(rows) BY <1>1, <2>1, <2>2
  <2> QED BY <2>1, <2>2, <2>3, ContentIsPieces DEF Pieces
<1> HIDE DEF rows, piece
<1>3. DOMAIN file' = DOMAIN file /\ \A k \in DOMAIN file :
        file'[k] = IF k = kind THEN Written(file[kind], off[u], piece) ELSE file[k]
  BY <1>1
<1>4. ASSUME NEW k \in DOMAIN file' PROVE file'[k] \in Seq(Pieces(k))
  <2>1. k \in DOMAIN file /\ file[k] \in Seq(Pieces(k)) BY <1>0, <1>3, <1>4 DEF FilesOK
  <2>2. CASE k = kind
    <3>1. Written(file[kind], off[u], piece) \in Seq(Pieces(kind)) BY <1>2, <2>1, <2>2, WrittenIsFile
    <3> QED BY <1>3, <2>1, <2>2, <3>1
  <2>3. CASE k # kind BY <1>3, <2>1, <2>3
  <2> QED BY <2>2, <2>3
<1>5. off' \in [Uploads -> Nat] /\ off'[u] = off[u] + 1
  BY <1>0, <1>1, <1>2 DEF FilesOK, BankTypeOK
<1>6. FilesOK'
  BY <1>0, <1>1, <1>3, <1>4, <1>5 DEF FilesOK, BankTypeOK, readerVars
<1>7. ASSUME u = latest, latest \notin overlapped
      PROVE  /\ kind \in DOMAIN file' /\ off'[u] = Len(file'[kind]) /\ Begins(file'[kind], rows)
  <2>1. latest # NoUpload BY <1>7, NoUploadAssumption
  <2>2. kind \in DOMAIN file /\ off[u] = Len(file[kind]) /\ Begins(file[kind], rows)
    BY <1>0, <1>1, <1>7, <2>1 DEF WriterInv, Achieved, rows
  <2>3. file[kind] \in Seq(Pieces(kind)) BY <1>0, <2>2 DEF FilesOK
  <2>4. file'[kind] = Append(file[kind], rows[Len(file[kind]) + 1])
    <3>1. off[u] = Len(file[kind]) => Written(file[kind], off[u], piece) = Append(file[kind], piece)
      BY <1>2, <2>3, WrittenIsFile
    <3>2. file'[kind] = Written(file[kind], off[u], piece) BY <1>3, <2>2
    <3> QED BY <2>2, <3>1, <3>2 DEF piece
  <2>5. Len(file'[kind]) = Len(file[kind]) + 1 /\ Begins(file'[kind], rows)
    <3>1. Len(file[kind]) < Len(rows) BY <1>1, <2>2
    <3> QED BY <1>2, <2>2, <2>3, <2>4, <3>1, BeginsGrows
  <2> QED BY <1>3, <1>5, <2>2, <2>5
<1>8. WriterInv'
  <2>1. ASSUME latest # NoUpload /\ latest \notin overlapped PROVE Achieved(latest)'
    <3>1. u = latest /\ Achieved(u) BY <1>0, <1>1, <2>1, BusyIsNoRest DEF WriterInv
    <3>2. kind = "payments" => "credits" \in DOMAIN file' /\ file'["credits"] = Content[u]["credits"]
      BY <1>1, <1>3, <3>1 DEF Achieved
    <3> QED BY <1>1, <1>7, <2>1, <3>1, <3>2 DEF Achieved, Kinds, rows
  <2>2. ASSUME overlapped = {}, NEW k \in DOMAIN file'
        PROVE  \E v \in Uploads : Begins(file'[k], Content[v][k])
    <3>1. u = latest /\ latest \notin overlapped BY <1>1, <2>2, BusyIsNoRest
    <3>2. CASE k = kind BY <1>7, <3>1, <3>2 DEF rows
    <3>3. CASE k # kind BY <1>0, <1>3, <2>2, <3>3 DEF WriterInv
    <3> QED BY <3>2, <3>3
  <2> QED BY <1>0, <1>1, <2>1, <2>2 DEF WriterInv, Busy
<1> QED BY <1>1, <1>6, <1>8, ReadersOutlast DEF BankInv

(* The handle is closed when every chunk is written.                       *)
LEMMA CloseFileKeeps ==
  ASSUME BankInv, NEW u \in Uploads, NEW kind \in Kinds, CloseFile(u, kind)
  PROVE  BankInv'
<1>0. FilesOK /\ WriterInv BY DEF BankInv
<1> DEFINE to == IF kind = "credits" THEN "open payments" ELSE "record"
<1>1. /\ u \in Busy /\ upc[u] = kind /\ off[u] = Len(Content[u][kind])
      /\ upc' = [upc EXCEPT ![u] = to] /\ to \in UploadPoints
      /\ UNCHANGED <<file, off, recorded, overlapped, latest, readerVars, starts, base>>
  BY DEF CloseFile, UploadAt, OpenPoint, Busy, UploadBusy, UploadPoints, Kinds
<1>2. /\ upc' \in [Uploads -> UploadPoints] /\ upc'[u] = to
      /\ \A v \in Uploads : v # u => upc'[v] = upc[v]
      /\ Busy' \subseteq Busy
  BY <1>1, UploadMoves
<1>3. FilesOK' BY <1>0, <1>1, <1>2 DEF FilesOK, BankTypeOK, readerVars
<1>4. WriterInv'
  <2>1. ASSUME latest # NoUpload /\ latest \notin overlapped PROVE Achieved(latest)'
    <3>1. u = latest /\ Achieved(u) BY <1>0, <1>1, <2>1, BusyIsNoRest DEF WriterInv
    <3>2. kind \in DOMAIN file /\ off[u] = Len(file[kind]) /\ Begins(file[kind], Content[u][kind])
      BY <1>1, <3>1 DEF Achieved
    <3>3. file[kind] = Content[u][kind]
      <4>1. file[kind] \in Seq(Pieces(kind)) /\ Content[u][kind] \in Seq(Pieces(kind))
        BY <1>0, <3>2, ContentIsPieces DEF FilesOK
      <4>2. ~(Len(file[kind]) < Len(Content[u][kind]))
        <5>1. Len(file[kind]) = Len(Content[u][kind]) BY <1>1, <3>2
        <5>2. Len(Content[u][kind]) \in Nat BY ContentIsPieces
        <5> QED BY <5>1, <5>2
      <4> QED BY <3>2, <4>1, <4>2, BeginsEnds
    <3>4. CASE kind = "credits" BY <1>1, <1>2, <3>1, <3>2, <3>3, <3>4 DEF Achieved, Kinds
    <3>5. CASE kind = "payments" BY <1>1, <1>2, <3>1, <3>2, <3>3, <3>5 DEF Achieved, Kinds
    <3> QED BY <3>4, <3>5 DEF Kinds
  <2> QED BY <1>0, <1>1, <1>2, <2>1 DEF WriterInv
<1> QED BY <1>1, <1>3, <1>4, ReadersOutlast DEF BankInv

(* The PortfolioUpload row is saved, or the upload dies.                   *)
LEMMA UploadEndsKeeps ==
  ASSUME BankInv, NEW u \in Uploads, Record(u) \/ UploadDies(u)
  PROVE  BankInv'
<1>0. FilesOK /\ WriterInv BY DEF BankInv
<1>1. PICK to \in {"done", "dead"} :
        /\ upc' = [upc EXCEPT ![u] = to]
        /\ to = "done" => upc[u] = "record" /\ recorded' = [k \in Kinds |-> Len(Content[u][k])]
  <2>1. CASE Record(u) BY <2>1 DEF Record, UploadAt
  <2>2. CASE UploadDies(u) BY <2>2 DEF UploadDies
  <2> QED BY <2>1, <2>2
<1>2. u \in Busy /\ UNCHANGED <<file, off, overlapped, latest, readerVars, starts, base>>
  BY DEF Record, UploadAt, UploadDies, Busy, UploadBusy, UploadPoints
<1>3. /\ upc' \in [Uploads -> UploadPoints] /\ upc'[u] = to
      /\ \A v \in Uploads : v # u => upc'[v] = upc[v]
      /\ Busy' \subseteq Busy
  BY <1>1, <1>2, UploadMoves DEF UploadPoints
<1>4. FilesOK' BY <1>0, <1>2, <1>3 DEF FilesOK, BankTypeOK, readerVars
<1>5. WriterInv'
  <2>1. ASSUME latest # NoUpload /\ latest \notin overlapped PROVE Achieved(latest)'
    <3>1. u = latest /\ Achieved(u) BY <1>0, <1>2, <2>1, BusyIsNoRest DEF WriterInv
    <3> QED BY <1>1, <1>2, <1>3, <3>1 DEF Achieved, Kinds
  <2> QED BY <1>0, <1>2, <1>3, <2>1 DEF WriterInv
<1> QED BY <1>2, <1>4, <1>5, ReadersOutlast DEF BankInv

(* At rest the files are those of the upload that began last.              *)
LEMMA RestIsWhole ==
  ASSUME BankInv, AtRest # NoUpload
  PROVE  /\ AtRest \in Uploads
         /\ \A k \in Kinds : /\ k \in DOMAIN file /\ file[k] = Content[AtRest][k]
                           /\ recorded[k] = Len(Content[AtRest][k])
<1>1. AtRest = latest /\ latest \notin overlapped /\ upc[latest] = "done" BY DEF AtRest
<1>2. latest \in Uploads BY <1>1 DEF BankInv, FilesOK, BankTypeOK
<1>3. Achieved(latest) BY <1>1 DEF BankInv, WriterInv
<1> QED BY <1>1, <1>2, <1>3 DEF Achieved, Kinds

(* The uploads do not see the readers.                                     *)
LEMMA WritersUnread == WriterInv /\ UNCHANGED uploadVars => WriterInv' /\ AtRest' = AtRest
  BY DEF WriterInv, Achieved, Busy, AtRest, uploadVars

(* A reader that goes on leaves the other ones alone.                      *)
LEMMA ReaderGoesOn ==
  ASSUME BankInv, UNCHANGED uploadVars, NEW r \in Readers, ReaderInv(r)', FilesOK',
         \A o \in Readers : o # r => rpc'[o] = rpc[o] /\ got'[o] = got[o] /\ base'[o] = base[o]
  PROVE  BankInv'
<1>1. WriterInv' /\ AtRest' = AtRest BY WritersUnread DEF BankInv
<1>2. ASSUME NEW o \in Readers, o # r PROVE ReaderInv(o)'
  BY <1>1, <1>2 DEF BankInv, ReaderInv
<1> QED BY <1>1, <1>2 DEF BankInv

(* A stream is opened, or there is no file.                                *)
LEMMA ServeKeeps ==
  ASSUME BankInv, NEW r \in Readers, NEW kind \in Kinds, Serve(r, kind), starts' \in 0..MaxStarts,
         \/ rpc[r] = "idle" /\ base' = [base EXCEPT ![r] = AtRest]
         \/ rpc[r] = "between" /\ base' = base
  PROVE  BankInv'
<1>0. FilesOK /\ ReaderInv(r) /\ BankTypeOK BY DEF BankInv, FilesOK
<1>1. UNCHANGED uploadVars BY DEF Serve
<1>2. AtRest' = AtRest /\ AtRest \in Uploads \cup {NoUpload}
  BY <1>0, <1>1, WritersUnread DEF BankInv, AtRest, BankTypeOK
<1>3. /\ base' \in [Readers -> Uploads \cup {NoUpload}]
      /\ \A o \in Readers : o # r => base'[o] = base[o]
      /\ base'[r] = AtRest \/ (rpc[r] = "between" /\ base'[r] = base[r])
  <2>1. base \in [Readers -> Uploads \cup {NoUpload}] BY <1>0 DEF BankTypeOK
  <2>2. CASE base' = [base EXCEPT ![r] = AtRest] BY <1>2, <2>1, <2>2
  <2>3. CASE rpc[r] = "between" /\ base' = base BY <2>1, <2>3
  <2> QED BY <2>2, <2>3
<1>4. CASE kind \in DOMAIN file /\ ReaderAt(r, kind) /\ got' = [got EXCEPT ![r] = Emptied(@, kind)]
  <2>1. /\ rpc' \in [Readers -> Reading \cup {"idle", "done", "refused", "failed"}]
        /\ rpc'[r] = kind /\ \A o \in Readers : o # r => rpc'[o] = rpc[o]
    BY <1>0, <1>4 DEF BankTypeOK, ReaderAt, Reading, Kinds
  <2>2. /\ DOMAIN got' = Readers /\ DOMAIN got'[r] = DOMAIN got[r] \cup {kind}
        /\ got'[r][kind] = <<>> /\ \A k \in DOMAIN got[r] : k # kind => got'[r][k] = got[r][k]
        /\ \A o \in Readers : o # r => got'[o] = got[o]
    BY <1>0, <1>4 DEF FilesOK, Emptied
  <2>3. <<>> \in Seq(Pieces(kind)) /\ Len(<<>>) = 0 BY EmptySeq
  <2>4. FilesOK'
    <3>1. \A o \in Readers : DOMAIN got'[o] \subseteq DOMAIN file
      BY <1>0, <1>4, <2>2 DEF BankTypeOK
    <3>2. \A o \in Readers : \A k \in DOMAIN got'[o] : got'[o][k] \in Seq(Pieces(k))
      BY <1>0, <2>2, <2>3 DEF FilesOK
    <3> QED BY <1>0, <1>1, <1>3, <2>1, <2>2, <3>1, <3>2 DEF FilesOK, BankTypeOK, uploadVars
  <2>5. ReaderInv(r)'
    <3>1. ASSUME base'[r] # NoUpload PROVE base'[r] = AtRest
      BY <1>0, <1>3, <3>1 DEF ReaderInv, Reading
    <3>2. ASSUME base'[r] # NoUpload, NEW k \in DOMAIN got[r], k # kind
          PROVE  got'[r][k] = Content[base'[r]][k]
      <4>1. rpc[r] = "between" /\ base'[r] = base[r] BY <1>0, <3>2 DEF ReaderInv
      <4>2. k # "between" BY <1>0, <3>2 DEF BankTypeOK, Kinds
      <4> QED BY <1>0, <2>2, <3>2, <4>1, <4>2 DEF ReaderInv, Reading
    <3>3. ASSUME base'[r] # NoUpload PROVE Begins(got'[r][kind], Content[base'[r]][kind])
      <4>1. base'[r] \in Uploads BY <1>3, <3>3
      <4>2. Len(Content[base'[r]][kind]) \in Nat BY <4>1, ContentIsPieces
      <4> QED BY <2>2, <2>3, <4>2 DEF Begins
    <3> QED BY <1>2, <2>1, <2>2, <3>1, <3>2, <3>3 DEF ReaderInv, Kinds
  <2> QED BY <1>1, <1>3, <2>1, <2>2, <2>4, <2>5, ReaderGoesOn
<1>5. CASE ReaderAt(r, "refused") /\ UNCHANGED got
  <2>1. /\ rpc' \in [Readers -> Reading \cup {"idle", "done", "refused", "failed"}]
        /\ rpc'[r] = "refused" /\ \A o \in Readers : o # r => rpc'[o] = rpc[o]
    BY <1>0, <1>5 DEF BankTypeOK, ReaderAt
  <2>2. FilesOK' BY <1>0, <1>1, <1>3, <1>5, <2>1 DEF FilesOK, BankTypeOK, uploadVars
  <2>3. ReaderInv(r)' BY <2>1 DEF ReaderInv, Reading, Kinds
  <2> QED BY <1>1, <1>3, <1>5, <2>1, <2>2, <2>3, ReaderGoesOn
<1> QED BY <1>4, <1>5 DEF Serve, Listing

(* A row is read from what the file holds by now.                          *)
LEMMA ReadRowKeeps ==
  ASSUME BankInv, NEW r \in Readers, NEW kind \in Kinds, ReadRow(r, kind)
  PROVE  BankInv'
<1>0. FilesOK /\ ReaderInv(r) /\ BankTypeOK BY DEF BankInv, FilesOK
<1>1. /\ rpc[r] = kind /\ Len(got[r][kind]) < Len(file[kind]) /\ UNCHANGED uploadVars
      /\ UNCHANGED <<rpc, starts, base>>
  BY DEF ReadRow, RowsLeft
<1>2. kind \in DOMAIN got[r] /\ kind \in DOMAIN file
  BY <1>0, <1>1 DEF ReaderInv, BankTypeOK
<1> DEFINE read == got[r][kind]
           rows == file[kind]
           more == Append(read, rows[Len(read) + 1])
<1>3. /\ DOMAIN got' = Readers /\ DOMAIN got'[r] = DOMAIN got[r] /\ got'[r][kind] = more
      /\ \A k \in DOMAIN got[r] : k # kind => got'[r][k] = got[r][k]
      /\ \A o \in Readers : o # r => got'[o] = got[o]
  BY <1>0, <1>2 DEF FilesOK, ReadRow
<1>4. read \in Seq(Pieces(kind)) /\ rows \in Seq(Pieces(kind)) BY <1>0, <1>2 DEF FilesOK
<1>5. Len(read) < Len(rows) BY <1>1
<1> HIDE DEF read, rows
<1>6. more \in Seq(Pieces(kind))
  <2>1. Len(read) \in Nat /\ Len(rows) \in Nat BY <1>4, LenProperties
  <2>2. rows[Len(read) + 1] \in Pieces(kind) BY <1>4, <1>5, <2>1, ElementOfSeq
  <2> QED BY <1>4, <2>2, AppendProperties
<1>7. Begins(read, rows) => Begins(more, rows) BY <1>4, <1>5, BeginsGrows
<1> HIDE DEF more
<1>8. FilesOK'
  <2>1. \A o \in Readers : \A k \in DOMAIN got'[o] : got'[o][k] \in Seq(Pieces(k))
    BY <1>0, <1>3, <1>6 DEF FilesOK
  <2> QED BY <1>0, <1>1, <1>3, <2>1 DEF FilesOK, BankTypeOK, uploadVars
<1>9. ReaderInv(r)'
  <2>1. ASSUME base[r] # NoUpload
        PROVE  /\ base[r] = AtRest' /\ Begins(got'[r][kind], Content[base[r]][kind])
    <3>1. base[r] = AtRest BY <1>0, <1>1, <2>1 DEF ReaderInv, Reading, Kinds
    <3>2. rows = Content[base[r]][kind] BY <2>1, <3>1, RestIsWhole DEF rows
    <3>3. Begins(read, rows) BY <1>0, <1>1, <1>2, <2>1, <3>2 DEF ReaderInv, Reading, Kinds, read
    <3>4. AtRest' = AtRest BY <1>1, WritersUnread DEF BankInv
    <3> QED BY <1>3, <1>7, <3>1, <3>2, <3>3, <3>4
  <2> QED BY <1>0, <1>1, <1>2, <1>3, <2>1 DEF ReaderInv, Reading, Kinds
<1> QED BY <1>1, <1>3, <1>8, <1>9, ReaderGoesOn

(* The stream ends with the file.                                          *)
LEMMA ReadEndsKeeps ==
  ASSUME BankInv, NEW r \in Readers, NEW kind \in Kinds, ReadEnds(r, kind)
  PROVE  BankInv'
<1>0. FilesOK /\ ReaderInv(r) /\ BankTypeOK BY DEF BankInv, FilesOK
<1>1. /\ rpc[r] = kind /\ ~(Len(got[r][kind]) < Len(file[kind])) /\ UNCHANGED uploadVars
      /\ UNCHANGED <<got, starts, base>>
  BY DEF ReadEnds, RowsLeft
<1>2. /\ rpc' \in [Readers -> Reading \cup {"idle", "done", "refused", "failed"}]
      /\ rpc'[r] \in {"between", "done"} /\ \A o \in Readers : o # r => rpc'[o] = rpc[o]
  BY <1>0 DEF BankTypeOK, ReadEnds, ReaderAt, Reading
<1>3. FilesOK' BY <1>0, <1>1, <1>2 DEF FilesOK, BankTypeOK, uploadVars
<1>4. AtRest' = AtRest BY <1>1, WritersUnread DEF BankInv
<1>5. ASSUME base[r] # NoUpload
      PROVE  base[r] = AtRest /\ \A k \in DOMAIN got[r] : got[r][k] = Content[base[r]][k]
  <2>1. base[r] = AtRest BY <1>0, <1>1, <1>5 DEF ReaderInv, Reading, Kinds
  <2>2. kind \in DOMAIN got[r] /\ file[kind] = Content[base[r]][kind] /\ kind \in DOMAIN file
    BY <1>0, <1>1, <1>5, <2>1, RestIsWhole DEF ReaderInv
  <2>3. got[r][kind] \in Seq(Pieces(kind)) /\ file[kind] \in Seq(Pieces(kind))
    BY <1>0, <2>2 DEF FilesOK
  <2>4. Begins(got[r][kind], file[kind])
    BY <1>0, <1>1, <1>5, <2>2 DEF ReaderInv, Reading, Kinds
  <2>5. got[r][kind] = file[kind] BY <1>1, <2>3, <2>4, BeginsEnds
  <2> QED BY <1>0, <1>1, <1>5, <2>1, <2>2, <2>5 DEF ReaderInv, Reading, Kinds
<1>6. ReaderInv(r)'
  <2>1. \A k \in DOMAIN got[r] : k \in Kinds BY <1>0 DEF BankTypeOK
  <2> QED BY <1>1, <1>2, <1>4, <1>5, <2>1 DEF ReaderInv, Kinds
<1> QED BY <1>1, <1>2, <1>3, <1>6, ReaderGoesOn

(* A run that fails drops its export.                                      *)
LEMMA DroppedKeeps ==
  ASSUME BankInv, NEW r \in Readers, UNCHANGED <<uploadVars, got, starts, base>>,
         rpc' = [rpc EXCEPT ![r] = IF @ \in Reading THEN "failed" ELSE @]
  PROVE  BankInv'
<1>0. FilesOK /\ ReaderInv(r) /\ BankTypeOK BY DEF BankInv, FilesOK
<1>1. /\ rpc' \in [Readers -> Reading \cup {"idle", "done", "refused", "failed"}]
      /\ rpc'[r] = (IF rpc[r] \in Reading THEN "failed" ELSE rpc[r])
      /\ \A o \in Readers : o # r => rpc'[o] = rpc[o]
  BY <1>0 DEF BankTypeOK
<1>2. FilesOK' BY <1>0, <1>1 DEF FilesOK, BankTypeOK, uploadVars
<1>3. AtRest' = AtRest BY WritersUnread DEF BankInv
<1>4. ReaderInv(r)'
  BY <1>0, <1>1, <1>3 DEF ReaderInv, Reading, Kinds
<1> QED BY <1>1, <1>2, <1>4, ReaderGoesOn

(* Steps outside the bank; the count of starts is a bound only.            *)
LEMMA BankStutters ==
  ASSUME BankInv, UNCHANGED <<uploadVars, readerVars, base>>, starts' \in 0..MaxStarts
  PROVE  BankInv'
<1>1. WriterInv' /\ AtRest' = AtRest BY WritersUnread DEF BankInv
<1>2. FilesOK' BY DEF BankInv, FilesOK, BankTypeOK, uploadVars, readerVars
<1>3. \A r \in Readers : ReaderInv(r)'
  BY <1>1 DEF BankInv, ReaderInv, readerVars
<1> QED BY <1>1, <1>2, <1>3 DEF BankInv

(* Before the first request the files are one upload, or do not exist.     *)
LEMMA BankInitial == BankInit => BankInv
<1> SUFFICES ASSUME BankInit PROVE BankInv
  OBVIOUS
<1>1. PICK first \in Earlier :
        /\ latest = first
        /\ file = IF first = NoUpload THEN <<>> ELSE [k \in Kinds |-> Content[first][k]]
        /\ recorded = [k \in DOMAIN file |-> Len(file[k])]
        /\ upc = [u \in Uploads |-> IF u = first THEN "done" ELSE "idle"]
  BY DEF BankInit
<1>2. /\ off = [u \in Uploads |-> 0] /\ rpc = [r \in Readers |-> "idle"]
      /\ got = [r \in Readers |-> <<>>] /\ starts = 0 /\ overlapped = {}
      /\ base = [r \in Readers |-> NoUpload]
  BY DEF BankInit
<1>3. first \in Uploads \cup {NoUpload} /\ NoUpload \notin Uploads BY NoUploadAssumption
<1>4. DOMAIN <<>> = {} OBVIOUS
<1>5. /\ DOMAIN file \subseteq Kinds /\ \A k \in DOMAIN file : file[k] \in Seq(Pieces(k))
      /\ first # NoUpload => DOMAIN file = Kinds /\ \A k \in Kinds : file[k] = Content[first][k]
      /\ first = NoUpload => DOMAIN file = {}
  <2>1. CASE first = NoUpload BY <1>1, <1>4, <2>1
  <2>2. CASE first # NoUpload BY <1>1, <1>3, <2>2, ContentIsPieces
  <2> QED BY <2>1, <2>2
<1>6. FilesOK
  <2>1. upc \in [Uploads -> UploadPoints] BY <1>1 DEF UploadPoints
  <2>2. starts \in 0..MaxStarts BY <1>2, StartsAssumption
  <2>3. \A r \in Readers : DOMAIN got[r] = {} BY <1>2, <1>4
  <2> QED BY <1>1, <1>2, <1>3, <1>5, <2>1, <2>2, <2>3 DEF FilesOK, BankTypeOK
<1>7. WriterInv
  <2>1. Busy = {} BY <1>1 DEF Busy, UploadBusy, UploadPoints
  <2>2. ASSUME first # NoUpload PROVE Achieved(first)
    <3>1. upc[first] = "done" /\ first \in Uploads BY <1>1, <1>3, <2>2
    <3>2. \A k \in Kinds : k \in DOMAIN file /\ file[k] = Content[first][k]
                        /\ recorded[k] = Len(Content[first][k])
      BY <1>1, <1>5, <2>2
    <3> QED BY <3>1, <3>2 DEF Achieved, Kinds
  <2>3. ASSUME NEW k \in DOMAIN file PROVE \E u \in Uploads : Begins(file[k], Content[u][k])
    <3>1. first \in Uploads /\ k \in Kinds /\ file[k] = Content[first][k] BY <1>3, <1>5, <2>3
    <3>2. Begins(file[k], Content[first][k])
      <4>1. Len(Content[first][k]) \in Nat BY <3>1, ContentIsPieces
      <4> QED BY <3>1, <4>1 DEF Begins
    <3> QED BY <3>1, <3>2
  <2> QED BY <1>1, <2>1, <2>2, <2>3 DEF WriterInv
<1>8. \A r \in Readers : ReaderInv(r)
  BY <1>2, <1>4 DEF ReaderInv, Kinds
<1> QED BY <1>6, <1>7, <1>8 DEF BankInv

(* BankInv is inductive.                                                   *)
LEMMA BankInduction == BankInv /\ [Next]_dataVars => BankInv'
<1> SUFFICES ASSUME BankInv, [Next]_dataVars PROVE BankInv'
  OBVIOUS
<1>0. starts \in 0..MaxStarts /\ MaxStarts \in Nat
  BY StartsAssumption DEF BankInv, FilesOK, BankTypeOK
<1>1. ASSUME NEW n \in {1, 2}, Started(n) PROVE starts' \in 0..MaxStarts
  BY <1>0, <1>1 DEF Started
<1>2. ASSUME NEW r \in Readers, NEW k \in Kinds, ExportStarts(r, k), starts' = starts PROVE BankInv'
  BY <1>0, <1>2, ServeKeeps DEF ExportStarts, Kinds
<1>3. CASE Bank
  <2>1. ASSUME NEW u \in Uploads, UploadStep(u) PROVE BankInv'
    BY <2>1, UploadStartsKeeps, OpenForWritingKeeps, WriteChunkKeeps, CloseFileKeeps, UploadEndsKeeps
    DEF UploadStep
  <2>2. ASSUME NEW d \in Downloads, DownloadStep(d) PROVE BankInv'
    <3>1. PICK k \in Kinds : DownloadStarts(d, k) \/ ReadRow(d, k) \/ ReadEnds(d, k)
      BY <2>2 DEF DownloadStep
    <3>2. d \in Readers BY DEF Readers
    <3>3. CASE DownloadStarts(d, k) BY <1>1, <3>2, <3>3, ServeKeeps DEF DownloadStarts
    <3> QED BY <3>1, <3>2, <3>3, ReadRowKeeps, ReadEndsKeeps
  <2> QED BY <1>3, <2>1, <2>2 DEF Bank
<1>4. ASSUME NEW t \in Syncs, Sync(t) PROVE BankInv'
  <2>0. t \in Readers BY ExporterAssumption DEF Readers
  <2>1. CASE SyncBegins(t) BY <1>1, <2>1, BankStutters DEF SyncBegins
  <2>2. CASE SyncStep(t) BY <1>0, <2>2, BankStutters DEF SyncStep, bankVars
  <2>3. CASE SyncFails(t) BY <2>0, <2>3, DroppedKeeps DEF SyncFails
  <2>4. ASSUME NEW k \in Kinds, SyncOpens(t, k) PROVE BankInv'
    BY <1>2, <2>0, <2>4 DEF SyncOpens
  <2>5. ASSUME NEW k \in Kinds, SyncReads(t, k) PROVE BankInv'
    BY <2>0, <2>5, ReadRowKeeps DEF SyncReads
  <2>6. ASSUME NEW k \in Kinds, SyncReadsEnd(t, k) PROVE BankInv'
    BY <2>0, <2>6, ReadEndsKeeps DEF SyncReadsEnd
  <2> QED BY <1>4, <2>1, <2>2, <2>3, <2>4, <2>5, <2>6 DEF Sync
<1>5. ASSUME NEW q \in Requests, Ask(q) \/ AskNext(q) PROVE BankInv'
  <2>1. CASE Ask(q) BY <1>1, <2>1, BankStutters DEF Ask
  <2>2. CASE AskNext(q) BY <1>0, <2>2, BankStutters DEF AskNext, bankVars
  <2> QED BY <1>5, <2>1, <2>2
<1>6. CASE UNCHANGED dataVars BY <1>0, <1>6, BankStutters DEF dataVars, bankVars
<1> QED BY <1>3, <1>4, <1>5, <1>6 DEF Next

(* As long as no two uploads overlapped, each file holds the beginning of  *)
(* one upload's rows, whoever died in the middle (storage.py:20-38).       *)
THEOREM FilesOfOneUpload == Spec => []FilesKeepOneUpload
<1>1. Init => BankInv BY BankInitial DEF Init
<1>2. BankInv => FilesKeepOneUpload
  <2> SUFFICES ASSUME BankInv, overlapped = {}, NEW k \in DOMAIN file
               PROVE  \E u \in Uploads : IsPrefix(file[k], Content[u][k])
    BY DEF FilesKeepOneUpload
  <2>1. k \in Kinds /\ file[k] \in Seq(Pieces(k)) BY DEF BankInv, FilesOK, BankTypeOK
  <2>2. PICK u \in Uploads : Begins(file[k], Content[u][k]) BY DEF BankInv, WriterInv
  <2> QED BY <2>1, <2>2, ContentIsPieces, BeginsIsPrefix
<1> QED BY <1>1, <1>2, BankInduction, PTL DEF Spec

(* The last upload, if it ran alone, heals what earlier ones left behind   *)
(* in the files and in the row (storage.py:20-61, bank/views.py:45-76).    *)
THEOREM LastUploadHeals == Spec => []LastUploadWins
<1>1. Init => BankInv BY BankInitial DEF Init
<1>2. BankInv => LastUploadWins BY RestIsWhole DEF LastUploadWins, Listing
<1> QED BY <1>1, <1>2, BankInduction, PTL DEF Spec

(* A reader that no upload disturbed has read one upload, and the two      *)
(* exports of a sync are of the same one (bank/views.py:92-169).           *)
THEOREM QuietReadersSeeOneUpload == Spec => []QuietReadIsOneUpload
<1>1. Init => BankInv BY BankInitial DEF Init
<1>2. BankInv => QuietReadIsOneUpload
  <2> SUFFICES ASSUME BankInv, NEW r \in Readers, rpc[r] = "done", base[r] # NoUpload,
                      NEW k \in DOMAIN got[r]
               PROVE  got[r][k] = Content[base[r]][k]
    BY DEF QuietReadIsOneUpload
  <2>1. ReaderInv(r) BY DEF BankInv
  <2>2. k # "done" BY DEF BankInv, FilesOK, BankTypeOK, Kinds
  <2> QED BY <2>1, <2>2 DEF ReaderInv
<1> QED BY <1>1, <1>2, BankInduction, PTL DEF Spec

-----------------------------------------------------------------------------
(* The answers of the two APIs.                                            *)

(* The newest version is the slice; the parts that are answered are the    *)
(* first of the request, each of a version that is committed.              *)
ReadInv ==
  /\ versions \in Seq(Range(versions)) /\ Len(versions) > 0 /\ versions[Len(versions)] = Slice
  /\ DOMAIN asked = Requests /\ DOMAIN answer = Requests /\ DOMAIN stamps = Requests
  /\ \A q \in Requests :
       /\ stamps[q] \in Seq(1..Len(versions)) /\ Len(stamps[q]) <= Len(Parts(q))
       /\ DOMAIN answer[q] = {Parts(q)[i] : i \in 1..Len(stamps[q])}

(* A sequence is the beginning of itself with one more.                    *)
LEMMA AppendIsLonger ==
  ASSUME NEW S, NEW s \in Seq(S), NEW e
  PROVE  /\ Append(s, e) \in Seq(S \cup {e}) /\ Len(Append(s, e)) = Len(s) + 1
         /\ Append(s, e)[Len(s) + 1] = e /\ IsPrefix(s, Append(s, e))
         /\ Append(s, e) \in Seq(Range(Append(s, e)))
<1> DEFINE T == S \cup {e}
           a == Append(s, e)
<1>1. s \in Seq(T) /\ e \in T BY SeqMonotonic
<1> HIDE DEF T
<1>2. /\ a \in Seq(T) /\ Len(a) = Len(s) + 1 /\ a[Len(s) + 1] = e
      /\ \A i \in 1..Len(s) : a[i] = s[i]
  BY <1>1, AppendProperties
<1> HIDE DEF a
<1>3. Len(s) \in Nat BY LenProperties
<1>4. Begins(s, a) BY <1>2, <1>3 DEF Begins
<1>5. IsPrefix(s, a) BY <1>1, <1>2, <1>4, BeginsIsPrefix
<1>6. a \in Seq(Range(a))
  <2>1. a \in [1..Len(a) -> T] /\ Len(a) \in Nat BY <1>2, LenProperties
  <2>2. a \in [1..Len(a) -> Range(a)] BY <2>1 DEF Range
  <2> QED BY <2>1, <2>2, SeqDef
<1> QED BY <1>2, <1>5, <1>6 DEF T, a

(* A commit is the only step that changes the slice, and it adds a version.*)
LEMMA SliceIsVersion ==
  ASSUME NEW t \in Syncs,
         TxnBegins(t) \/ TxnStep(t) \/ TxnFails(t)
         \/ \E rows, blank : CreditsReceived(t, rows, blank) \/ PaymentsReceived(t, rows, blank)
  PROVE  \/ UNCHANGED <<cred, pay, versions>>
         \/ versions' = Append(versions, Slice')
  BY DEF TxnBegins, TxnStep, TxnFails, CreditsReceived, PaymentsReceived, DeletePayments,
     FindCredits, DeleteCredits, InsertCredit, CreditsFlushed, InsertPayment, PaymentsFlushed,
     TxnCommits, Slice

(* A commit is the commit of SnapshotAnswers.                              *)
LEMMA CommitAnswers ==
  ASSUME ReadInv, UNCHANGED readVars,
         UNCHANGED <<cred, pay, versions>> \/ versions' = Append(versions, Slice')
  PROVE  ReadInv' /\ [Answers!Next]_<<versions, asked, answer, stamps>>
<1>0. UNCHANGED <<asked, answer, stamps>> BY DEF readVars
<1>1. CASE UNCHANGED <<cred, pay, versions>>
  <2>1. Slice' = Slice BY <1>1 DEF Slice
  <2> QED BY <1>0, <1>1, <2>1 DEF ReadInv
<1>2. CASE versions' = Append(versions, Slice')
  <2>0. versions \in Seq(Range(versions)) /\ Len(versions) \in Nat BY LenProperties DEF ReadInv
  <2>1. /\ Len(versions') = Len(versions) + 1 /\ versions'[Len(versions) + 1] = Slice'
        /\ IsPrefix(versions, versions') /\ versions' \in Seq(Range(versions'))
    <3> DEFINE slice == Slice'
    <3> HIDE DEF slice
    <3>1. versions' = Append(versions, slice) BY <1>2 DEF slice
    <3>2. /\ Len(versions') = Len(versions) + 1 /\ versions'[Len(versions) + 1] = slice
          /\ IsPrefix(versions, versions') /\ versions' \in Seq(Range(versions'))
      BY <2>0, <3>1, AppendIsLonger
    <3> QED BY <3>2 DEF slice
  <2>2. Answers!Commit
    <3>1. Len(versions') = Len(versions) + 1 /\ IsPrefix(versions, versions') BY <2>1
    <3> QED BY <1>0, <3>1 DEF Answers!Commit, Answers!IsPrefix, IsPrefix
  <2>a. Answers!Next BY <2>2 DEF Answers!Next
  <2>3. \A q \in Requests : stamps[q] \in Seq(1..Len(versions'))
    <3>1. 1..Len(versions) \subseteq 1..Len(versions') BY <2>0, <2>1
    <3> QED BY <3>1, SeqMonotonic DEF ReadInv
  <2>4. ReadInv' BY <1>0, <2>0, <2>1, <2>3 DEF ReadInv
  <2> QED BY <2>a, <2>4
<1> QED BY <1>1, <1>2

(* A request that begins is one of SnapshotAnswers.                        *)
LEMMA AskAnswers ==
  ASSUME ReadInv, NEW q \in Requests, Ask(q)
  PROVE  ReadInv' /\ Answers!Next
<1>1. PICK ask : asked[q] = <<>> /\ asked' = [asked EXCEPT ![q] = ask]
  BY DEF Ask, ReadStarts
<1>2. UNCHANGED <<answer, stamps, versions, cred, pay>> BY DEF Ask, ReadStarts, txnVars
<1>3. ReadInv'
  <2>1. DOMAIN asked' = Requests /\ Slice' = Slice BY <1>1, <1>2 DEF ReadInv, Slice
  <2> QED BY <1>2, <2>1 DEF ReadInv
<1>4. asked' = [asked EXCEPT ![q] = asked'[q]] BY <1>1 DEF ReadInv
<1>5. Answers!Ask(q) BY <1>1, <1>2, <1>4 DEF Answers!Ask
<1> QED BY <1>3, <1>5 DEF Answers!Next

(* The parts of a request.                                                 *)
LEMMA PartsAreListed ==
  ASSUME NEW q \in Requests
  PROVE  Len(Parts(q)) \in Nat /\ DOMAIN Parts(q) = 1..Len(Parts(q))
<1>1. Len(PagerParts) = 3 /\ DOMAIN PagerParts = 1..3 BY DEF PagerParts
<1>2. Len(ProfilerParts) = 15 /\ DOMAIN ProfilerParts = 1..15 BY DEF ProfilerParts
<1> QED BY <1>1, <1>2 DEF Parts

(* A query answers the next part from the newest version.                  *)
LEMMA NextQueryAnswers ==
  ASSUME ReadInv, NEW q \in Requests, AskNext(q)
  PROVE  ReadInv' /\ Answers!Next
<1> DEFINE n == Len(stamps[q])
           v == Len(versions)
           part == Parts(q)[n + 1]
<1>1. /\ asked[q] # <<>> /\ ~Finished(q)
      /\ answer' = [answer EXCEPT ![q] =
           [p \in DOMAIN answer[q] \cup {part} |->
              IF p = part THEN Query(part, asked[q], answer[q], Slice) ELSE answer[q][p]]]
      /\ stamps' = [stamps EXCEPT ![q] = Append(stamps[q], v)]
      /\ UNCHANGED <<asked, versions, cred, pay>>
  BY DEF AskNext, NextQuery, Seen, txnVars
<1>2. /\ v \in Nat /\ v > 0 /\ DOMAIN versions = 1..v /\ versions[v] = Slice
      /\ stamps[q] \in Seq(1..v) /\ n \in Nat /\ n <= Len(Parts(q))
      /\ DOMAIN stamps[q] = 1..n /\ \A i \in 1..n : stamps[q][i] \in 1..v
  <2>1. versions \in Seq(Range(versions)) /\ stamps[q] \in Seq(1..v) BY DEF ReadInv
  <2> QED BY <2>1, LenProperties, ElementOfSeq DEF ReadInv
<1>3. n < Len(Parts(q))
  <2>1. DOMAIN answer[q] = {Parts(q)[i] : i \in 1..n} BY DEF ReadInv
  <2>2. n # Len(Parts(q))
    BY <1>1, <2>1, PartsAreListed DEF Finished, Range
  <2> QED BY <1>2, <2>2, PartsAreListed
<1>4. Answers!AnswerPart(q)
  <2>1. v \in DOMAIN versions /\ \A i \in DOMAIN stamps[q] : stamps[q][i] <= v BY <1>2
  <2> QED BY <1>1, <1>2, <1>3, <2>1 DEF Answers!AnswerPart
<1>5. ReadInv'
  <2>1. Slice' = Slice BY <1>1 DEF Slice
  <2>2. DOMAIN answer' = Requests /\ DOMAIN stamps' = Requests /\ DOMAIN asked' = Requests
    BY <1>1 DEF ReadInv
  <2>3. \A p \in Requests : p # q => answer'[p] = answer[p] /\ stamps'[p] = stamps[p]
    BY <1>1 DEF ReadInv
  <2>4. stamps'[q] \in Seq(1..v) /\ Len(stamps'[q]) = n + 1
    <3>1. stamps'[q] = Append(stamps[q], v) /\ v \in 1..v BY <1>1, <1>2 DEF ReadInv
    <3> QED BY <1>2, <3>1, AppendProperties
  <2>5. DOMAIN answer'[q] = {Parts(q)[i] : i \in 1..(n + 1)}
    <3>1. DOMAIN answer'[q] = DOMAIN answer[q] \cup {part} BY <1>1 DEF ReadInv
    <3>2. DOMAIN answer[q] = {Parts(q)[i] : i \in 1..n} BY DEF ReadInv
    <3>3. 1..(n + 1) = 1..n \cup {n + 1} BY <1>2
    <3> QED BY <3>1, <3>2, <3>3
  <2>6. n + 1 <= Len(Parts(q)) BY <1>2, <1>3, PartsAreListed
  <2>7. ASSUME NEW p \in Requests
        PROVE  /\ stamps'[p] \in Seq(1..Len(versions')) /\ Len(stamps'[p]) <= Len(Parts(p))
               /\ DOMAIN answer'[p] = {Parts(p)[i] : i \in 1..Len(stamps'[p])}
    <3>1. CASE p = q BY <1>1, <2>4, <2>5, <2>6, <3>1
    <3>2. CASE p # q BY <1>1, <2>3, <3>2 DEF ReadInv
    <3> QED BY <3>1, <3>2
  <2> QED BY <1>1, <2>1, <2>2, <2>7 DEF ReadInv
<1> QED BY <1>4, <1>5 DEF Answers!Next

(* Every step keeps ReadInv and is a step of SnapshotAnswers, or none.     *)
LEMMA ReadInduction ==
  ReadInv /\ [Next]_dataVars => ReadInv' /\ [Answers!Next]_<<versions, asked, answer, stamps>>
<1> SUFFICES ASSUME ReadInv, [Next]_dataVars
             PROVE  ReadInv' /\ [Answers!Next]_<<versions, asked, answer, stamps>>
  OBVIOUS
<1>1. CASE UNCHANGED <<txnVars, readVars>>
  BY <1>1, CommitAnswers DEF txnVars
<1>2. ASSUME NEW t \in Syncs, Sync(t)
      PROVE  ReadInv' /\ [Answers!Next]_<<versions, asked, answer, stamps>>
  <2>1. UNCHANGED readVars
    BY <1>2 DEF Sync, SyncBegins, SyncStep, SyncFails, SyncOpens, SyncReads, SyncReadsEnd
  <2>2. UNCHANGED <<cred, pay, versions>> \/ versions' = Append(versions, Slice')
    <3>1. CASE UNCHANGED txnVars BY <3>1 DEF txnVars
    <3>2. CASE TxnBegins(t) \/ TxnStep(t) \/ TxnFails(t)
               \/ \E rows, blank : CreditsReceived(t, rows, blank) \/ PaymentsReceived(t, rows, blank)
      BY <3>2, SliceIsVersion
    <3> QED BY <1>2, <3>1, <3>2
            DEF Sync, SyncBegins, SyncStep, SyncFails, SyncOpens, SyncReads, SyncReadsEnd
  <2> QED BY <2>1, <2>2, CommitAnswers
<1>3. ASSUME NEW q \in Requests, Ask(q) \/ AskNext(q)
      PROVE  ReadInv' /\ [Answers!Next]_<<versions, asked, answer, stamps>>
  BY <1>3, AskAnswers, NextQueryAnswers
<1>4. CASE Bank BY <1>1, <1>4 DEF Bank
<1>5. CASE UNCHANGED dataVars BY <1>1, <1>5 DEF dataVars
<1> QED BY <1>2, <1>3, <1>4, <1>5 DEF Next

(* Before the first request one version is committed, and nothing asked.   *)
LEMMA ReadInitial == Init => ReadInv /\ Answers!Init
<1> SUFFICES ASSUME Init PROVE ReadInv /\ Answers!Init
  OBVIOUS
<1>1. versions = <<Slice>> BY DEF Init, TxnInit
<1>2. ReadInit BY DEF Init
<1>3. Len(versions) = 1 /\ versions[1] = Slice /\ versions \in Seq(Range(versions))
  <2> DEFINE slice == Slice
  <2> HIDE DEF slice
  <2>1. versions = <<slice>> BY <1>1 DEF slice
  <2>2. /\ Len(<<slice>>) = 1 /\ <<slice>>[1] = slice /\ <<slice>> \in Seq({slice})
        /\ DOMAIN <<slice>> = 1..1
    OBVIOUS
  <2>3. Range(<<slice>>) = {slice} BY <2>2 DEF Range
  <2> QED BY <2>1, <2>2, <2>3 DEF slice
<1>4. Answers!Init BY <1>2, <1>3 DEF Answers!Init, ReadInit
<1>5. ASSUME NEW q \in Requests
      PROVE  /\ stamps[q] \in Seq(1..Len(versions)) /\ Len(stamps[q]) <= Len(Parts(q))
             /\ DOMAIN answer[q] = {Parts(q)[i] : i \in 1..Len(stamps[q])}
  <2>1. stamps[q] = <<>> /\ answer[q] = <<>> BY <1>2 DEF ReadInit
  <2>2. <<>> \in Seq(1..Len(versions)) /\ Len(<<>>) = 0 /\ DOMAIN <<>> = {} /\ 1..0 = {}
    BY EmptySeq
  <2> QED BY <2>1, <2>2, PartsAreListed
<1> QED BY <1>2, <1>3, <1>4, <1>5 DEF ReadInv, ReadInit

(* What the two APIs answer is put together from committed versions that   *)
(* never go back: DataPath implements SnapshotAnswers (warehouse.py:42-80, *)
(* profiling.py:147-219).                                                  *)
THEOREM AnswersRefine == Spec => AnswersAreCommitted
  BY ReadInitial, ReadInduction, PTL
  DEF Spec, AnswersAreCommitted, Answers!Spec, Answers!answerVars
=============================================================================
