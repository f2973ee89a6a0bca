------------------------------ MODULE BankFiles ------------------------------
(***************************************************************************)
(* The external bank's two files of one (tenant_id, loan_type): uploads    *)
(* that rewrite them in place (bank/views.py, services/storage.py) and     *)
(* exports and downloads that read them while they stream                  *)
(* (services/streaming.py).  Other pairs have directories of their own.    *)
(*                                                                         *)
(* A file is a sequence of pieces, one row each; every open handle has an  *)
(* offset of its own, so a write past the end of the file leaves a hole.   *)
(***************************************************************************)
EXTENDS Naturals, Sequences, SequencesExt, FiniteSets

CONSTANTS Uploads,    \* POST /api/bank/upload requests
          Content,    \* the rows each of them brings: kind -> sequence of rows
          NoUpload,   \* no upload
          Earlier,    \* what may have been uploaded before, NoUpload included
          Exporters,  \* adapter runs, which export credits, then payments
          Downloads,  \* download requests, one file each
          Hole,       \* a piece nobody wrote
          MaxStarts   \* bound: requests and runs started in a behaviour

Kinds == {"credits", "payments"}

(* Both files arrive with every upload; a hole is nobody's row.            *)
ASSUME ContentAssumption ==
  /\ DOMAIN Content = Uploads
  /\ \A u \in Uploads, k \in Kinds : Content[u][k] \in Seq(Range(Content[u][k]) \ {Hole})
ASSUME NoUploadAssumption ==
  NoUpload \notin Uploads /\ Earlier \subseteq Uploads \cup {NoUpload}
ASSUME StartsAssumption == MaxStarts \in Nat

VARIABLES
  file,       \* the files that exist: kind -> pieces
  upc,        \* where each upload stands in BankUploadView.post
  off,        \* the offset of its open handle
  recorded,   \* the sizes in the PortfolioUpload row: <<>> without a row
  rpc,        \* where each reader stands
  got,        \* what it read so far: kind -> pieces
  starts,     \* requests and runs started so far
  (* History, read by the properties and by no guard *)
  overlapped, \* uploads that ran while another one did
  latest,     \* the upload that began last
  base        \* the upload a reader saw at rest: it ran alone, was done when
              \* the reader began, and none began since

Readers == Exporters \cup Downloads

uploadVars == <<file, upc, off, recorded, overlapped, latest>>
readerVars == <<rpc, got>>
bankVars == <<uploadVars, readerVars, starts, base>>

UploadPoints ==
  {"idle", "open credits", "credits", "open payments", "payments", "record", "done", "dead"}
UploadBusy == UploadPoints \ {"idle", "done", "dead"}
Reading == {"credits", "between", "payments"}

BankTypeOK ==
  /\ DOMAIN file \subseteq Kinds
  /\ upc \in [Uploads -> UploadPoints]
  /\ off \in [Uploads -> Nat]
  /\ rpc \in [Readers -> Reading \cup {"idle", "done", "refused", "failed"}]
  /\ \A r \in Readers : DOMAIN got[r] \subseteq DOMAIN file
  /\ starts \in 0..MaxStarts
  /\ overlapped \subseteq Uploads
  /\ latest \in Uploads \cup {NoUpload}
  /\ base \in [Readers -> Uploads \cup {NoUpload}]

(* Nothing was uploaded yet, or one upload has been.                       *)
BankInit == \E first \in Earlier :
  /\ latest = first
  /\ file = IF first = NoUpload THEN <<>> ELSE [k \in Kinds |-> Content[first][k]]
  /\ recorded = [k \in DOMAIN file |-> Len(file[k])]
  /\ upc = [u \in Uploads |-> IF u = first THEN "done" ELSE "idle"]
  /\ off = [u \in Uploads |-> 0]
  /\ rpc = [r \in Readers |-> "idle"]
  /\ got = [r \in Readers |-> <<>>]
  /\ starts = 0 /\ overlapped = {}
  /\ base = [r \in Readers |-> NoUpload]

Started(weight) == starts + weight <= MaxStarts /\ starts' = starts + weight

-----------------------------------------------------------------------------
(* POST /api/bank/upload.                                                  *)

OpenPoint(kind) == IF kind = "credits" THEN "open credits" ELSE "open payments"
UploadAt(u, from, to) == upc[u] = from /\ upc' = [upc EXCEPT ![u] = to]
Busy == {u \in Uploads : upc[u] \in UploadBusy}

(* UploadSerializer is valid and both files arrived; anything else is 400. *)
UploadStarts(u) ==
  /\ Started(1)
  /\ UploadAt(u, "idle", "open credits")
  /\ overlapped' = IF Busy = {} THEN overlapped ELSE overlapped \cup Busy \cup {u}
  /\ latest' = u
  /\ base' = [r \in Readers |-> IF rpc[r] \in Reading THEN NoUpload ELSE base[r]]
  /\ UNCHANGED <<file, off, recorded, readerVars>>

(* These files with an empty one, whether it was there before or not.      *)
Emptied(files, kind) ==
  [k \in DOMAIN files \cup {kind} |-> IF k = kind THEN <<>> ELSE files[k]]

(* Mutant: the file is opened without truncating it.                       *)
OpenForWriting_Keep(u, kind) ==
  /\ upc[u] = OpenPoint(kind)
  /\ upc' = [upc EXCEPT ![u] = kind]
  /\ off' = [off EXCEPT ![u] = 0]
  /\ file' = IF kind \in DOMAIN file THEN file ELSE Emptied(file, kind)
  /\ UNCHANGED <<recorded, overlapped, latest, readerVars, starts, base>>

(* destination.open("wb") creates the file or truncates it.                *)
OpenForWriting(u, kind) ==
  /\ upc[u] = OpenPoint(kind)
  /\ upc' = [upc EXCEPT ![u] = kind]
  /\ off' = [off EXCEPT ![u] = 0]
  /\ file' = Emptied(file, kind)
  /\ UNCHANGED <<recorded, overlapped, latest, readerVars, starts, base>>

(* A write at an offset: overwrite, append, or leave a hole before it.     *)
Written(pieces, at, piece) ==
  [i \in 1..(IF Len(pieces) > at THEN Len(pieces) ELSE at + 1) |->
     IF i = at + 1 THEN piece ELSE IF i <= Len(pieces) THEN pieces[i] ELSE Hole]

WriteChunk(u, kind) ==
  /\ upc[u] = kind /\ off[u] < Len(Content[u][kind])
  /\ file' = [file EXCEPT ![kind] = Written(@, off[u], Content[u][kind][off[u] + 1])]
  /\ off' = [off EXCEPT ![u] = @ + 1]
  /\ UNCHANGED <<upc, recorded, overlapped, latest, readerVars, starts, base>>

(* save_upload_files: the payments file after the credits file.            *)
CloseFile(u, kind) ==
  /\ off[u] = Len(Content[u][kind])
  /\ UploadAt(u, kind, IF kind = "credits" THEN OpenPoint("payments") ELSE "record")
  /\ UNCHANGED <<file, off, recorded, overlapped, latest, readerVars, starts, base>>

(* Mutant: the two sizes are swapped.                                      *)
Record_Swapped(u) ==
  /\ UploadAt(u, "record", "done")
  /\ recorded' = [k \in Kinds |-> Len(Content[u][CHOOSE o \in Kinds : o # k])]
  /\ UNCHANGED <<file, off, overlapped, latest, readerVars, starts, base>>

(* update_or_create of the pair's row with the sizes this upload counted.  *)
Record(u) ==
  /\ UploadAt(u, "record", "done")
  /\ recorded' = [k \in Kinds |-> Len(Content[u][k])]
  /\ UNCHANGED <<file, off, overlapped, latest, readerVars, starts, base>>

(* The disk is full or the process dies: what was written stays.           *)
UploadDies(u) ==
  /\ upc[u] \in UploadBusy
  /\ upc' = [upc EXCEPT ![u] = "dead"]
  /\ UNCHANGED <<file, off, recorded, overlapped, latest, readerVars, starts, base>>

UploadStep(u) ==
  \/ UploadStarts(u) \/ Record(u) \/ UploadDies(u)
  \/ \E k \in Kinds : OpenForWriting(u, k) \/ WriteChunk(u, k) \/ CloseFile(u, k)

-----------------------------------------------------------------------------
(* Exports and downloads.                                                  *)

ReaderAt(r, to) == rpc' = [rpc EXCEPT ![r] = to]

(* list_portfolios: what the portal shows of the pair.                     *)
Listing ==
  [k \in Kinds |-> [has |-> k \in DOMAIN file,
                    size |-> IF k \in DOMAIN file THEN Len(file[k]) ELSE 0]]

(* The upload whose rows the files hold when nobody is writing: the last   *)
(* one, unless it ran along with another or died.                          *)
AtRest ==
  IF latest # NoUpload /\ latest \notin overlapped /\ upc[latest] = "done"
  THEN latest ELSE NoUpload

(* No file, no stream: 404; else an empty stream so far.                   *)
Serve(r, kind) ==
  /\ IF Listing[kind].has
     THEN ReaderAt(r, kind) /\ got' = [got EXCEPT ![r] = Emptied(@, kind)]
     ELSE ReaderAt(r, "refused") /\ UNCHANGED got
  /\ UNCHANGED uploadVars

(* _export_file: the exists() test, then a generator that opens the file   *)
(* when the response starts.                                               *)
ExportStarts(s, kind) ==
  /\ rpc[s] = IF kind = "credits" THEN "idle" ELSE "between"
  /\ base' = IF kind = "credits" THEN [base EXCEPT ![s] = AtRest] ELSE base
  /\ Serve(s, kind)

(* _download_file: the same files for a person, as csv or json.            *)
DownloadStarts(d, kind) ==
  /\ Started(1)
  /\ rpc[d] = "idle"
  /\ base' = [base EXCEPT ![d] = AtRest]
  /\ Serve(d, kind)

(* Mutant: the stream stops before the last row.                           *)
RowsLeft_Short(r, kind) == Len(got[r][kind]) + 1 < Len(file[kind])

RowsLeft(r, kind) == Len(got[r][kind]) < Len(file[kind])

(* The next row of _iter_csv_rows, from whatever the file holds by now.    *)
ReadRow(r, kind) ==
  /\ rpc[r] = kind /\ RowsLeft(r, kind)
  /\ got' = [got EXCEPT ![r][kind] = Append(@, file[kind][Len(@) + 1])]
  /\ UNCHANGED <<uploadVars, rpc, starts, base>>

(* The end of the file: a sync goes on with the payments, if there are     *)
(* any left to ask for; the array is closed.                               *)
ReadEnds(r, kind) ==
  /\ rpc[r] = kind /\ ~RowsLeft(r, kind)
  /\ ReaderAt(r, IF r \in Exporters /\ kind = "credits" THEN "between" ELSE "done")
  /\ UNCHANGED <<uploadVars, got, starts, base>>

DownloadStep(d) ==
  \E k \in Kinds : DownloadStarts(d, k) \/ ReadRow(d, k) \/ ReadEnds(d, k)

-----------------------------------------------------------------------------
(* Properties.                                                             *)

(* As long as no two uploads overlapped, each file holds the beginning of  *)
(* one upload's rows, whoever died in the middle (save_upload_files).      *)
FilesKeepOneUpload ==
  overlapped = {} =>
    \A k \in DOMAIN file : \E u \in Uploads : IsPrefix(file[k], Content[u][k])

(* An upload that ran alone and is the last heals what earlier ones left:  *)
(* both files and the PortfolioUpload row are its own, and the portal      *)
(* shows the sizes the upload answered with (storage.py:20-61,             *)
(* views.py:45-76).                                                        *)
LastUploadWins ==
  AtRest # NoUpload => \A k \in Kinds :
    /\ k \in DOMAIN file /\ file[k] = Content[AtRest][k]
    /\ Listing[k].size = recorded[k]

(* An export pair or a download during which no upload ran is one upload,  *)
(* whole: the two files of a sync belong together (views.py:92-169,        *)
(* streaming.py:24-53).                                                   *)
QuietReadIsOneUpload ==
  \A r \in Readers : rpc[r] = "done" /\ base[r] # NoUpload =>
    \A k \in DOMAIN got[r] : got[r][k] = Content[base[r]][k]
=============================================================================
