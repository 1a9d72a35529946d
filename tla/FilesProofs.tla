----------------------------- MODULE FilesProofs -----------------------------
(***************************************************************************)
(* Proofs about the components that write files without a lock: Uploads,   *)
(* Tools and ServerConfig.  In each the argument is that who has emptied a *)
(* file has it to itself until its text is there, or the history says that *)
(* it was not so.  At the end, Services: the components side by side.      *)
(***************************************************************************)
EXTENDS Services, ServicesProofs

-----------------------------------------------------------------------------
(* A text that is written into an empty file                               *)

LEMMA OverEmpty ==
    ASSUME NEW S, NEW s \in Seq(S)
    PROVE  Overlay(s, <<>>) = s
  <1>1. Len(s) \in Nat
    OBVIOUS
  <1>2. SubSeq(<<>>, Len(s) + 1, 0) = <<>>
    <2>1. Len(s) + 1 \in Int /\ 0 < Len(s) + 1
      BY <1>1
    <2>2. QED
      BY <2>1, SubSeqEmpty
  <1>3. Len(<<>>) = 0 /\ s \o <<>> = s
    OBVIOUS
  <1>4. QED
    BY <1>2, <1>3 DEF Overlay

LEMMA OverlayTyped ==
    ASSUME NEW S, NEW s \in Seq(S), NEW old \in Seq(S)
    PROVE  Overlay(s, old) \in Seq(S)
  <1> DEFINE r == SubSeq(old, Len(s) + 1, Len(old))
  <1>1. Len(s) \in Nat /\ Len(old) \in Nat /\ \A i \in 1..Len(old) : old[i] \in S
    OBVIOUS
  <1>2. \A i \in (Len(s) + 1)..Len(old) : i \in 1..Len(old)
    BY <1>1
  <1>3. Len(s) + 1 \in Int /\ Len(old) \in Int
    BY <1>1
  <1>4. \A i \in (Len(s) + 1)..Len(old) : old[i] \in S
    BY <1>1, <1>2
  <1>5. r \in Seq(S)
    BY <1>3, <1>4, SubSeqProperties
  <1> HIDE DEF r
  <1>6. s \o r \in Seq(S)
    BY <1>5
  <1>7. QED
    BY <1>6 DEF Overlay, r

(* All but the last element of a sequence, and the last one. *)
LEMMA LastApart ==
    ASSUME NEW S, NEW s \in Seq(S), s # <<>>
    PROVE  /\ SubSeq(s, 1, Len(s) - 1) \in Seq(S)
           /\ Append(SubSeq(s, 1, Len(s) - 1), s[Len(s)]) = s
  <1> DEFINE n == Len(s)
             r == SubSeq(s, 1, n - 1)
  <1>1. n \in Nat /\ n >= 1 /\ s[n] \in S
    BY EmptySeq
  <1>2. /\ r \in Seq(S) /\ Len(r) = n - 1
        /\ \A i \in 1..(n - 1) : r[i] = s[i]
    <2>1. n - 1 \in Int /\ \A i \in 1..(n - 1) : s[i] \in S
      BY <1>1
    <2>2. /\ r \in Seq(S) /\ Len(r) = IF 1 <= n - 1 THEN n - 1 - 1 + 1 ELSE 0
          /\ \A i \in 1..(n - 1 - 1 + 1) : r[i] = s[1 + i - 1]
      BY <2>1, SubSeqProperties
    <2> HIDE DEF r, n
    <2>3. n - 1 - 1 + 1 = n - 1 /\ \A i \in 1..(n - 1) : 1 + i - 1 = i
      BY <1>1
    <2>4. Len(r) = n - 1
      BY <1>1, <2>2, <2>3
    <2>5. \A i \in 1..(n - 1) : r[i] = s[i]
      BY <2>2, <2>3
    <2>6. QED
      BY <2>2, <2>4, <2>5
  <1> HIDE DEF r
  <1>3. /\ Append(r, s[n]) \in Seq(S) /\ Len(Append(r, s[n])) = n
        /\ \A i \in 1..(n - 1) : Append(r, s[n])[i] = r[i]
        /\ Append(r, s[n])[n] = s[n]
    BY <1>1, <1>2, AppendProperties
  <1>4. \A i \in 1..n : Append(r, s[n])[i] = s[i]
    <2>1. \A i \in 1..n : i \in 1..(n - 1) \/ i = n
      BY <1>1
    <2>2. QED
      BY <1>2, <1>3, <2>1
  <1>5. Append(r, s[n]) = s
    BY <1>3, <1>4, SeqEqual
  <1>6. QED
    BY <1>2, <1>5 DEF r

-----------------------------------------------------------------------------
(* Uploads, for any threads, users, files and bodies                       *)

(* What stands at the start of the longer text. *)
LEMMA StartOf ==
    ASSUME NEW S, NEW s \in Seq(S), NEW r \in Seq(S)
    PROVE  /\ Len(s) \in 0..Len(s \o r)
           /\ SubSeq(s \o r, 1, Len(s)) = s
  <1> DEFINE t == s \o r
             u == SubSeq(t, 1, Len(s))
  <1>1. Len(s) \in Nat /\ Len(r) \in Nat
    OBVIOUS
  <1>2. /\ t \in Seq(S) /\ Len(t) = Len(s) + Len(r)
        /\ \A i \in 1..Len(s) : t[i] = s[i]
    BY <1>1
  <1> HIDE DEF t
  <1>3. \A i \in 1..Len(s) : t[i] \in S
    BY <1>2
  <1>4. /\ u \in Seq(S) /\ Len(u) = Len(s)
        /\ \A i \in 1..Len(s) : u[i] = t[i]
    <2>1. /\ u \in Seq(S) /\ Len(u) = IF 1 <= Len(s) THEN Len(s) - 1 + 1 ELSE 0
          /\ \A i \in 1..(Len(s) - 1 + 1) : u[i] = t[1 + i - 1]
      BY <1>1, <1>3, SubSeqProperties
    <2> HIDE DEF u
    <2>2. Len(s) - 1 + 1 = Len(s) /\ \A i \in 1..Len(s) : 1 + i - 1 = i
      BY <1>1
    <2>3. Len(u) = Len(s)
      BY <1>1, <2>1, <2>2
    <2>4. \A i \in 1..Len(s) : u[i] = t[i]
      BY <2>1, <2>2
    <2>5. QED
      BY <2>1, <2>3, <2>4
  <1> HIDE DEF u
  <1>5. u = s
    BY <1>2, <1>4, SeqEqual
  <1>6. QED
    BY <1>1, <1>2, <1>5 DEF t, u

(* A file begins with data, up to one line end, and may go on if it is mixed. *)
Shows(text, data, mix) ==
    \E n \in 0..Len(text) :
        /\ data = SubSeq(text, 1, n) \/ data = Append(SubSeq(text, 1, n), Crlf)
        /\ ~mix => n = Len(text)

LEMMA StoredTyped ==
    ASSUME NEW data \in Seq(Cells)
    PROVE  Stored(data) \in Seq(Cells) /\ data \in {Stored(data), Append(Stored(data), Crlf)}
  <1>1. CASE data # <<>> /\ data[Len(data)] = Crlf
    <2>1. Stored(data) = SubSeq(data, 1, Len(data) - 1)
      BY <1>1 DEF Stored
    <2>2. Stored(data) \in Seq(Cells) /\ Append(Stored(data), Crlf) = data
      BY <1>1, <2>1, LastApart
    <2>3. QED
      BY <2>2
  <1>2. CASE ~(data # <<>> /\ data[Len(data)] = Crlf)
    BY <1>2 DEF Stored
  <1>3. QED
    BY <1>1, <1>2

(* Data that is written goes to the start of the file, and fills it if the *)
(* file was empty.                                                         *)
LEMMA WrittenShows ==
    ASSUME NEW data \in Seq(Cells), NEW old \in Seq(Cells), NEW mix \in BOOLEAN,
           mix \/ old = <<>>
    PROVE  Shows(Overlay(Stored(data), old), data, mix)
  <1> DEFINE s == Stored(data)
             r == SubSeq(old, Len(s) + 1, Len(old))
             text == s \o r
  <1>1. s \in Seq(Cells) /\ data \in {s, Append(s, Crlf)}
    BY StoredTyped
  <1>2. Overlay(s, old) = text
    BY DEF Overlay
  <1> HIDE DEF s
  <1>3. r \in Seq(Cells)
    <2>1. /\ Len(s) + 1 \in Int /\ Len(old) \in Int /\ Len(s) + 1 >= 1
          /\ \A i \in 1..Len(old) : old[i] \in Cells
      BY <1>1
    <2>2. \A i \in (Len(s) + 1)..Len(old) : old[i] \in Cells
      BY <2>1
    <2>3. QED
      BY <2>1, <2>2, SubSeqProperties
  <1> HIDE DEF r
  <1>4. Len(s) \in 0..Len(text) /\ SubSeq(text, 1, Len(s)) = s
    BY <1>1, <1>3, StartOf
  <1>5. ~mix => Len(s) = Len(text)
    <2>1. ~mix => Overlay(s, old) = s
      BY <1>1, OverEmpty
    <2> HIDE DEF text
    <2>2. QED
      BY <1>2, <2>1
  <1> HIDE DEF text
  <1>6. data = SubSeq(text, 1, Len(s)) \/ data = Append(SubSeq(text, 1, Len(s)), Crlf)
    BY <1>1, <1>4
  <1>7. Shows(text, data, mix)
    BY <1>4, <1>5, <1>6 DEF Shows
  <1>8. QED
    BY <1>2, <1>7 DEF s

UploadJobs == [pc : {"idle", "parse", "save", "write"}, owner : Owners \union {NoName},
               body : Multiparts \union {<<>>}, pos : Nat \ {0}, fields : Seq(Parts),
               open : BOOLEAN]

(* A thread's record, and the file it is about to write. *)
Aim(k) == <<k.owner, Head(k.fields).file>>
UploadOK(k) ==
    /\ k \in UploadJobs
    /\ k.pc # "idle" => /\ k.owner \in Owners /\ k.body \in Multiparts
                        /\ k.pos <= Len(k.body.parts) + 1
    /\ k.pc = "write" => k.fields # <<>> /\ Head(k.fields).file \in FileNames

DiskTyped ==
    /\ DOMAIN disk \subseteq Paths /\ \A p \in DOMAIN disk : disk[p] \in Seq(Cells)
    /\ DOMAIN reported \subseteq Paths
    /\ spoilt \subseteq Paths /\ mixed \subseteq Paths /\ bodies \in 0..MaxBodies

(* Who has a file open finds it empty, and has it alone, or it is mixed.   *)
Opens(u) == up[u].pc = "write" /\ up[u].open
HasFile(u) ==
    Opens(u) =>
        /\ Target(u) \in DOMAIN disk
        /\ Target(u) \notin mixed =>
              /\ disk[Target(u)] = <<>>
              /\ \A w \in Uploaders \ {u} : Opens(w) => Target(w) # Target(u)

UploadInv ==
    /\ up \in [Uploaders -> UploadJobs]
    /\ \A u \in Uploaders : UploadOK(up[u])
    /\ DiskTyped
    /\ \A u \in Uploaders : HasFile(u)
    /\ UploadsStored

LEMMA IdleUploads ==
    /\ IdleUpload \in UploadJobs /\ UploadOK(IdleUpload) /\ IdleUpload.pc = "idle"
    /\ IdleUpload.pos = 1 /\ IdleUpload.fields = <<>> /\ IdleUpload.open = FALSE
  <1>1. <<>> \in Seq(Parts)
    OBVIOUS
  <1>2. /\ IdleUpload \in UploadJobs /\ IdleUpload.pc = "idle" /\ IdleUpload.pos = 1
        /\ IdleUpload.fields = <<>> /\ IdleUpload.open = FALSE
    BY <1>1 DEF IdleUpload, UploadJobs
  <1>3. QED
    BY <1>2 DEF UploadOK

LEMMA UploadInitially == InitUploads => UploadInv
  <1> SUFFICES ASSUME InitUploads
               PROVE  UploadInv
    OBVIOUS
  <1>1. DOMAIN NoFiles = {}
    BY DEF NoFiles
  <1>2. 0 \in 0..MaxBodies
    BY UploadsAssumption
  <1>3. QED
    BY <1>1, <1>2, IdleUploads DEF InitUploads, UploadInv, DiskTyped, HasFile, Opens,
                                  UploadsStored

(* Steps of a thread that neither writes before them nor after.            *)
LEMMA QuietStep ==
    ASSUME UploadInv, NEW u \in Uploaders, NEW k, UploadOK(k), k.pc # "write",
           up[u].pc # "write", up' = [up EXCEPT ![u] = k],
           UNCHANGED <<disk, reported, spoilt, mixed>>, bodies' \in 0..MaxBodies
    PROVE  UploadInv'
  <1>1. up \in [Uploaders -> UploadJobs] /\ k \in UploadJobs
    BY DEF UploadInv, UploadOK
  <1>2. up' \in [Uploaders -> UploadJobs] /\ up'[u] = k
    BY <1>1
  <1>3. \A w \in Uploaders : w # u => up'[w] = up[w]
    BY <1>1
  <1>4. \A w \in Uploaders : UploadOK(up'[w])
    BY <1>2, <1>3 DEF UploadInv
  <1>5. \A w \in Uploaders : /\ up'[w].pc = "write" <=> up[w].pc = "write"
                             /\ up[w].pc = "write" => up'[w] = up[w]
    BY <1>2, <1>3
  <1>6. DiskTyped'
    BY DEF DiskTyped, UploadInv
  <1>7. ASSUME NEW w \in Uploaders
        PROVE  HasFile(w)'
    <2>1. HasFile(w)
      BY DEF UploadInv
    <2>2. QED
      BY <1>5, <2>1 DEF HasFile, Opens, Target
  <1>8. UploadsStored'
    <2>1. \A p : Writing(p)' <=> Writing(p)
      BY <1>5 DEF Writing, Target
    <2>2. UploadsStored
      BY DEF UploadInv
    <2>3. QED
      BY <2>1, <2>2 DEF UploadsStored
  <1>9. QED
    BY <1>2, <1>4, <1>6, <1>7, <1>8 DEF UploadInv

LEMMA BeginKeeps ==
    ASSUME UploadInv, NEW u \in Uploaders, BeginUpload(u)
    PROVE  UploadInv'
  <1>1. PICK b \in Multiparts, o \in Owners :
           up' = [up EXCEPT ![u] = [IdleUpload EXCEPT !.pc = "parse", !.owner = o, !.body = b]]
    BY DEF BeginUpload
  <1> DEFINE k == [IdleUpload EXCEPT !.pc = "parse", !.owner = o, !.body = b]
  <1>2. /\ k \in UploadJobs /\ k.pc = "parse" /\ k.owner = o /\ k.body = b /\ k.pos = 1
    BY IdleUploads DEF UploadJobs
  <1>3. Len(b.parts) \in Nat
    BY UploadsAssumption
  <1> HIDE DEF k
  <1>4. UploadOK(k)
    BY <1>2, <1>3 DEF UploadOK
  <1>5. bodies < MaxBodies /\ bodies \in 0..MaxBodies /\ MaxBodies \in Nat /\ bodies' = bodies + 1
    BY UploadsAssumption DEF BeginUpload, UploadInv, DiskTyped
  <1>6. bodies' \in 0..MaxBodies
    BY <1>5
  <1>7. up[u].pc # "write" /\ UNCHANGED <<disk, reported, spoilt, mixed>>
    BY DEF BeginUpload
  <1>8. up' = [up EXCEPT ![u] = k]
    BY <1>1 DEF k
  <1>9. QED
    BY <1>2, <1>4, <1>6, <1>7, <1>8, QuietStep

LEMMA ParsingKeeps ==
    ASSUME UploadInv, NEW u \in Uploaders, ParsePart(u) \/ ParseEnds(u)
    PROVE  UploadInv'
  <1> DEFINE j == up[u]
             b == j.body
  <1>1. /\ j \in UploadJobs /\ j.owner \in Owners /\ b \in Multiparts
        /\ j.pos <= Len(b.parts) + 1 /\ j.pc = "parse"
    BY DEF ParsePart, ParseEnds, UploadInv, UploadOK
  <1>2. /\ j.pos \in Nat \ {0} /\ j.fields \in Seq(Parts) /\ b.parts \in Seq(Parts)
        /\ Len(b.parts) \in Nat
    BY <1>1, UploadsAssumption DEF UploadJobs
  <1>3. /\ up \in [Uploaders -> UploadJobs] /\ bodies' = bodies /\ bodies \in 0..MaxBodies
        /\ UNCHANGED <<disk, reported, spoilt, mixed>>
    BY DEF ParsePart, ParseEnds, UploadInv, DiskTyped
  <1>4. CASE ParsePart(u)
    <2> DEFINE part == b.parts[j.pos]
               k == [j EXCEPT !.pos = @ + 1, !.fields = Append(@, part)]
    <2>1. up' = [up EXCEPT ![u] = k] /\ j.pos \in DOMAIN b.parts
      BY <1>3, <1>4 DEF ParsePart, Continues
    <2>2. part \in Parts /\ j.pos <= Len(b.parts)
      BY <1>2, <2>1
    <2> HIDE DEF part
    <2>3. Append(j.fields, part) \in Seq(Parts) /\ j.pos + 1 \in Nat \ {0}
      BY <1>2, <2>2
    <2> HIDE DEF j
    <2>4. k \in UploadJobs /\ k.pc = "parse" /\ k.owner = j.owner /\ k.body = b /\ k.pos = j.pos + 1
      BY <1>1, <2>3 DEF UploadJobs
    <2>5. k.pos <= Len(k.body.parts) + 1
      BY <1>2, <2>2, <2>4
    <2> HIDE DEF k, b
    <2>6. UploadOK(k)
      BY <1>1, <2>4, <2>5 DEF UploadOK
    <2>7. QED
      BY <1>1, <1>3, <2>1, <2>4, <2>6, QuietStep DEF j
  <1>5. CASE ParseEnds(u)
    <2> DEFINE k == [j EXCEPT !.pc = "save"]
    <2>1. up' = [up EXCEPT ![u] = IdleUpload] \/ up' = [up EXCEPT ![u] = k]
      BY <1>3, <1>5 DEF ParseEnds
    <2>2. k \in UploadJobs /\ k.pc = "save" /\ k.owner = j.owner /\ k.body = b /\ k.pos = j.pos
      BY <1>1 DEF UploadJobs
    <2> HIDE DEF k, b
    <2>3. UploadOK(k)
      BY <1>1, <2>2 DEF UploadOK
    <2>4. QED
      BY <1>1, <1>3, <2>1, <2>2, <2>3, IdleUploads, QuietStep
  <1>6. QED
    BY <1>4, <1>5

LEMMA FieldsKeep ==
    ASSUME UploadInv, NEW u \in Uploaders, SkipField(u) \/ AnswerUpload(u)
    PROVE  UploadInv'
  <1> DEFINE j == up[u]
  <1>1. UploadOK(j) /\ j.pc = "save"
    BY DEF SkipField, AnswerUpload, UploadInv
  <1>2. /\ up \in [Uploaders -> UploadJobs] /\ bodies' = bodies /\ bodies \in 0..MaxBodies
        /\ UNCHANGED <<disk, reported, spoilt, mixed>>
    BY DEF SkipField, AnswerUpload, UploadInv, DiskTyped
  <1>3. CASE SkipField(u)
    <2> DEFINE k == [j EXCEPT !.fields = Tail(@)]
    <2>1. up' = [up EXCEPT ![u] = k] /\ j.fields # <<>>
      BY <1>2, <1>3 DEF SkipField
    <2>2. Tail(j.fields) \in Seq(Parts)
      BY <1>1, <2>1 DEF UploadOK, UploadJobs
    <2>3. k \in UploadJobs /\ k.pc = "save" /\ k.owner = j.owner /\ k.body = j.body /\ k.pos = j.pos
      BY <1>1, <2>2 DEF UploadOK, UploadJobs
    <2> HIDE DEF k
    <2>4. UploadOK(k)
      BY <1>1, <2>3 DEF UploadOK
    <2>5. QED
      BY <1>1, <1>2, <2>1, <2>3, <2>4, QuietStep
  <1>4. CASE AnswerUpload(u)
    <2>1. up' = [up EXCEPT ![u] = IdleUpload]
      BY <1>4 DEF AnswerUpload
    <2>2. QED
      BY <1>1, <1>2, <2>1, IdleUploads, QuietStep
  <1>5. QED
    BY <1>3, <1>4

LEMMA OpenKeeps ==
    ASSUME UploadInv, NEW u \in Uploaders, OpenTarget(u)
    PROVE  UploadInv'
  <1> DEFINE j == up[u]
             q == Target(u)
  <1>1. PICK ok \in BOOLEAN :
          /\ up' = [up EXCEPT ![u].pc = "write", ![u].open = ok]
          /\ disk' = IF ok THEN SetAt(disk, q, <<>>) ELSE disk
          /\ mixed' = IF ~ok THEN mixed
                      ELSE IF SharesTarget(u) THEN mixed \union {q} ELSE mixed \ {q}
    BY DEF OpenTarget
  <1> DEFINE k == [j EXCEPT !.pc = "write", !.open = ok]
  <1>2. up \in [Uploaders -> UploadJobs] /\ \A w \in Uploaders : UploadOK(up[w])
    BY DEF UploadInv
  <1>3. /\ UploadOK(j) /\ j.pc = "save" /\ j.fields # <<>> /\ Head(j.fields).file # NoName
        /\ UNCHANGED <<reported, spoilt, bodies>>
    BY <1>2 DEF OpenTarget
  <1>4. Head(j.fields).file \in FileNames
    <2>1. j.fields \in Seq(Parts)
      BY <1>3 DEF UploadOK, UploadJobs
    <2>2. Head(j.fields) \in Parts
      BY <1>3, <2>1
    <2>3. QED
      BY <1>3, <2>2 DEF Parts
  <1>5. q \in Paths /\ q = Aim(j)
    BY <1>3, <1>4 DEF UploadOK, Target, Aim, Paths
  <1>6. /\ k \in UploadJobs /\ k.pc = "write" /\ k.owner = j.owner /\ k.body = j.body
        /\ k.pos = j.pos /\ k.fields = j.fields /\ k.open = ok
    BY <1>3 DEF UploadOK, UploadJobs
  <1>7. up' = [up EXCEPT ![u] = k]
    BY <1>1, <1>2
  <1> HIDE DEF k
  <1>8. UploadOK(k) /\ Aim(k) = q
    BY <1>3, <1>4, <1>5, <1>6 DEF UploadOK, Aim
  <1>9. /\ up' \in [Uploaders -> UploadJobs] /\ up'[u] = k
        /\ \A w \in Uploaders : w # u => up'[w] = up[w]
    BY <1>2, <1>6, <1>7
  <1>10. \A w \in Uploaders : UploadOK(up'[w])
    BY <1>2, <1>8, <1>9
  <1>11. /\ Target(u)' = q
         /\ \A w \in Uploaders : w # u => Target(w)' = Target(w)
    BY <1>8, <1>9 DEF Target, Aim
  <1> HIDE DEF q, j
  <1>12. /\ DOMAIN disk \subseteq DOMAIN disk' /\ DOMAIN disk' \subseteq DOMAIN disk \union {q}
         /\ \A p \in DOMAIN disk : p # q => disk'[p] = disk[p]
         /\ ok => q \in DOMAIN disk' /\ disk'[q] = <<>>
         /\ ~ok => disk' = disk
    <2>1. /\ DOMAIN SetAt(disk, q, <<>>) = DOMAIN disk \union {q}
          /\ SetAt(disk, q, <<>>)[q] = <<>>
          /\ \A p \in DOMAIN disk : p # q => SetAt(disk, q, <<>>)[p] = disk[p]
      BY DEF SetAt
    <2>2. ok => disk' = SetAt(disk, q, <<>>)
      BY <1>1
    <2>3. ~ok => disk' = disk
      BY <1>1
    <2>4. QED
      BY <2>1, <2>2, <2>3
  <1>13. \A p : p # q => (p \in mixed' <=> p \in mixed)
    BY <1>1
  <1>14. DiskTyped'
    <2>1. DiskTyped
      BY DEF UploadInv
    <2>2. ASSUME NEW p \in DOMAIN disk'
          PROVE  disk'[p] \in Seq(Cells)
      <3>1. CASE p = q /\ ok
        BY <1>12, <3>1
      <3>2. CASE ~(p = q /\ ok)
        BY <1>12, <2>1, <2>2, <3>2 DEF DiskTyped
      <3>3. QED
        BY <3>1, <3>2
    <2>3. mixed' \subseteq Paths
      BY <1>1, <1>5, <2>1 DEF DiskTyped
    <2>4. QED
      BY <1>3, <1>5, <1>12, <2>1, <2>2, <2>3 DEF DiskTyped
  <1>15. ASSUME ok, q \notin mixed', NEW w \in Uploaders, w # u, Opens(w)
         PROVE  Target(w) # q
    <2>1. ~SharesTarget(u)
      BY <1>1, <1>15
    <2>2. QED
      BY <1>15, <2>1 DEF SharesTarget, Opens, q
  <1>16. ASSUME NEW w \in Uploaders
         PROVE  HasFile(w)'
    <2>1. \A v \in Uploaders : v # u => (Opens(v)' <=> Opens(v))
      BY <1>9 DEF Opens
    <2>2. Opens(u)' <=> ok
      BY <1>6, <1>9 DEF Opens
    <2>3. CASE w = u
      <3>1. ASSUME ok, q \notin mixed', NEW v \in Uploaders, v # u, Opens(v)'
            PROVE  Target(v)' # q
        BY <1>11, <1>15, <2>1, <3>1
      <3>2. QED
        BY <1>11, <1>12, <2>2, <2>3, <3>1 DEF HasFile
    <2>4. CASE w # u
      <3>1. SUFFICES ASSUME Opens(w)
                     PROVE  HasFile(w)'
        BY <2>1, <2>4 DEF HasFile
      <3>2. /\ Target(w)' = Target(w) /\ Target(w) \in DOMAIN disk
            /\ Target(w) \notin mixed =>
                  /\ disk[Target(w)] = <<>>
                  /\ \A v \in Uploaders \ {w} : Opens(v) => Target(v) # Target(w)
        BY <1>11, <2>4, <3>1 DEF UploadInv, HasFile
      <3>3. CASE Target(w) = q
        <4>1. CASE ok
          <5>1. q \in mixed'
            BY <1>15, <2>4, <3>1, <3>3, <4>1
          <5>2. QED
            BY <1>12, <3>2, <3>3, <5>1 DEF HasFile
        <4>2. CASE ~ok
          <5>1. mixed' = mixed /\ disk' = disk
            BY <1>1, <4>2
          <5>2. \A v \in Uploaders : Opens(v)' => v # u /\ Opens(v)
            BY <2>1, <2>2, <4>2
          <5>3. QED
            BY <1>11, <3>2, <5>1, <5>2 DEF HasFile
        <4>3. QED
          BY <4>1, <4>2
      <3>4. CASE Target(w) # q
        <4>1. /\ Target(w) \in DOMAIN disk' /\ disk'[Target(w)] = disk[Target(w)]
              /\ Target(w) \in mixed' <=> Target(w) \in mixed
          BY <1>12, <1>13, <3>2, <3>4
        <4>2. ASSUME Target(w) \notin mixed, NEW v \in Uploaders \ {w}, Opens(v)'
              PROVE  Target(v)' # Target(w)
          BY <1>11, <2>1, <3>2, <3>4, <4>2
        <4>3. QED
          BY <3>2, <4>1, <4>2 DEF HasFile
      <3>5. QED
        BY <3>3, <3>4
    <2>5. QED
      BY <2>3, <2>4
  <1>17. UploadsStored'
    <2>1. \A p : p = q => Writing(p)'
      BY <1>6, <1>9, <1>11 DEF Writing
    <2>2. \A p : Writing(p) => Writing(p)'
      BY <1>3, <1>9, <1>11 DEF Writing, j
    <2>3. UploadsStored
      BY DEF UploadInv
    <2>4. ASSUME NEW p \in (DOMAIN reported) \ spoilt, ~Writing(p)'
          PROVE  p \in DOMAIN disk' /\ Shows(disk'[p], reported[p], p \in mixed')
      <3>1. p # q /\ ~Writing(p)
        BY <2>1, <2>2, <2>4
      <3>2. p \in DOMAIN disk /\ Shows(disk[p], reported[p], p \in mixed)
        BY <2>3, <2>4, <3>1 DEF UploadsStored, Shows
      <3>3. p \in DOMAIN disk' /\ disk'[p] = disk[p] /\ (p \in mixed' <=> p \in mixed)
        BY <1>12, <1>13, <3>1, <3>2
      <3>4. QED
        BY <3>2, <3>3 DEF Shows
    <2>5. QED
      BY <1>3, <2>4 DEF UploadsStored, Shows
  <1>18. QED
    BY <1>9, <1>10, <1>14, <1>16, <1>17 DEF UploadInv

LEMMA WriteKeeps ==
    ASSUME UploadInv, NEW u \in Uploaders, WriteTarget(u)
    PROVE  UploadInv'
  <1> DEFINE j == up[u]
             q == Target(u)
             data == Head(j.fields).data
             k == [j EXCEPT !.pc = "save", !.open = FALSE, !.fields = Tail(@)]
  <1>1. up \in [Uploaders -> UploadJobs] /\ \A w \in Uploaders : UploadOK(up[w])
    BY DEF UploadInv
  <1>2. /\ UploadOK(j) /\ j.pc = "write" /\ UNCHANGED <<mixed, bodies>>
        /\ reported' = SetAt(reported, q, data)
        /\ up' = [up EXCEPT ![u] = k]
        /\ \/ /\ j.open /\ spoilt' = spoilt \ {q}
              /\ disk' = SetAt(disk, q, Overlay(Stored(data), disk[q]))
           \/ spoilt' = spoilt \union {q} /\ disk' = disk
    BY <1>1 DEF WriteTarget
  <1>3. j.fields \in Seq(Parts) /\ j.fields # <<>> /\ Head(j.fields).file \in FileNames
    BY <1>2 DEF UploadOK, UploadJobs
  <1>4. Head(j.fields) \in Parts /\ Tail(j.fields) \in Seq(Parts)
    BY <1>3
  <1>5. data \in Seq(Cells)
    BY <1>4 DEF Parts
  <1>6. q \in Paths
    BY <1>2, <1>3 DEF UploadOK, Target, Paths
  <1>7. /\ k \in UploadJobs /\ k.pc = "save" /\ k.owner = j.owner /\ k.body = j.body /\ k.pos = j.pos
    BY <1>2, <1>4 DEF UploadOK, UploadJobs
  <1> HIDE DEF k, data
  <1>8. UploadOK(k)
    BY <1>2, <1>7 DEF UploadOK
  <1>9. /\ up' \in [Uploaders -> UploadJobs] /\ up'[u] = k
        /\ \A w \in Uploaders : w # u => up'[w] = up[w]
    BY <1>1, <1>2, <1>7
  <1>10. \A w \in Uploaders : UploadOK(up'[w])
    BY <1>1, <1>8, <1>9
  <1>11. \A w \in Uploaders : w # u => Target(w)' = Target(w)
    BY <1>9 DEF Target
  <1>12. HasFile(u)
    BY DEF UploadInv
  <1>13. j.open => q \in DOMAIN disk /\ (q \notin mixed => disk[q] = <<>>)
    BY <1>2, <1>12 DEF HasFile, Opens
  <1>14. /\ DOMAIN reported' = DOMAIN reported \union {q} /\ reported'[q] = data
         /\ \A p \in DOMAIN reported : p # q => reported'[p] = reported[p]
    BY <1>2 DEF SetAt
  <1>15. /\ DOMAIN disk' = DOMAIN disk
         /\ \A p \in DOMAIN disk : p # q => disk'[p] = disk[p]
         /\ disk' = disk \/ (disk'[q] = Overlay(Stored(data), disk[q]) /\ q \in DOMAIN disk)
    <2>1. SUFFICES ASSUME j.open, disk' = SetAt(disk, q, Overlay(Stored(data), disk[q]))
                   PROVE  /\ DOMAIN disk' = DOMAIN disk
                          /\ \A p \in DOMAIN disk : p # q => disk'[p] = disk[p]
                          /\ disk'[q] = Overlay(Stored(data), disk[q])
      BY <1>2, <1>13
    <2>2. QED
      BY <1>13, <2>1 DEF SetAt
  <1>16. q \notin spoilt' =>
            q \in DOMAIN disk /\ Shows(disk'[q], data, q \in mixed')
    <2>1. SUFFICES ASSUME q \notin spoilt'
                   PROVE  q \in DOMAIN disk /\ Shows(disk'[q], data, q \in mixed')
      OBVIOUS
    <2>2. j.open /\ disk' = SetAt(disk, q, Overlay(Stored(data), disk[q]))
      BY <1>2, <2>1
    <2>3. disk[q] \in Seq(Cells) /\ q \in DOMAIN disk /\ (q \in mixed \/ disk[q] = <<>>)
      BY <1>13, <2>2 DEF UploadInv, DiskTyped
    <2>4. disk'[q] = Overlay(Stored(data), disk[q])
      BY <2>2 DEF SetAt
    <2> DEFINE mix == q \in mixed
    <2>5. mix \in BOOLEAN /\ (mix \/ disk[q] = <<>>)
      BY <2>3
    <2> HIDE DEF mix
    <2>6. Shows(Overlay(Stored(data), disk[q]), data, mix)
      BY <1>5, <2>3, <2>5, WrittenShows
    <2>7. QED
      BY <1>2, <2>3, <2>4, <2>6 DEF mix
  <1> HIDE DEF q, j
  <1>17. spoilt' \subseteq spoilt \union {q} /\ \A p : p # q => (p \in spoilt' <=> p \in spoilt)
    BY <1>2
  <1>18. DiskTyped'
    <2>1. DiskTyped
      BY DEF UploadInv
    <2>2. ASSUME NEW p \in DOMAIN disk'
          PROVE  disk'[p] \in Seq(Cells)
      <3>1. disk[p] \in Seq(Cells) /\ p \in DOMAIN disk
        BY <1>15, <2>1, <2>2 DEF DiskTyped
      <3>2. CASE disk'[p] = Overlay(Stored(data), disk[p])
        BY <1>5, <3>1, <3>2, StoredTyped, OverlayTyped
      <3>3. CASE disk'[p] = disk[p]
        BY <3>1, <3>3
      <3>4. QED
        BY <1>15, <3>1, <3>2, <3>3
    <2>3. QED
      BY <1>2, <1>6, <1>14, <1>15, <1>17, <2>1, <2>2 DEF DiskTyped
  <1>19. ASSUME NEW w \in Uploaders
         PROVE  HasFile(w)'
    <2>1. ~Opens(u)' /\ \A v \in Uploaders : v # u => (Opens(v)' <=> Opens(v))
      BY <1>7, <1>9 DEF Opens
    <2>2. SUFFICES ASSUME Opens(w), w # u
                   PROVE  HasFile(w)'
      BY <2>1 DEF HasFile
    <2>3. /\ Target(w)' = Target(w) /\ Target(w) \in DOMAIN disk
          /\ Target(w) \notin mixed =>
                /\ disk[Target(w)] = <<>>
                /\ \A v \in Uploaders \ {w} : Opens(v) => Target(v) # Target(w)
      BY <1>11, <2>2 DEF UploadInv, HasFile
    <2>4. Target(w) \in DOMAIN disk' /\ mixed' = mixed
      BY <1>2, <1>15, <2>3
    <2>5. ASSUME Target(w) \notin mixed
          PROVE  disk'[Target(w)] = <<>>
      <3>1. Opens(u) => Target(w) # q
        BY <2>2, <2>3, <2>5 DEF q
      <3>2. disk' = disk \/ Opens(u)
        BY <1>2 DEF Opens, j
      <3>3. QED
        BY <1>15, <2>3, <2>5, <3>1, <3>2
    <2>6. ASSUME Target(w) \notin mixed, NEW v \in Uploaders \ {w}, Opens(v)'
          PROVE  Target(v)' # Target(w)
      BY <1>11, <2>1, <2>3, <2>6
    <2>7. QED
      BY <2>3, <2>4, <2>5, <2>6 DEF HasFile
  <1>20. UploadsStored'
    <2>1. \A p : p # q /\ Writing(p) => Writing(p)'
      BY <1>9, <1>11 DEF Writing, q
    <2>2. UploadsStored
      BY DEF UploadInv
    <2>3. ASSUME NEW p \in (DOMAIN reported') \ spoilt', ~Writing(p)'
          PROVE  p \in DOMAIN disk' /\ Shows(disk'[p], reported'[p], p \in mixed')
      <3>1. CASE p = q
        BY <1>14, <1>15, <1>16, <2>3, <3>1
      <3>2. CASE p # q
        <4>1. p \in DOMAIN reported /\ p \notin spoilt /\ ~Writing(p)
          BY <1>14, <1>17, <2>1, <2>3, <3>2
        <4>2. p \in DOMAIN disk /\ Shows(disk[p], reported[p], p \in mixed)
          BY <2>2, <4>1 DEF UploadsStored, Shows
        <4>3. /\ disk'[p] = disk[p] /\ p \in DOMAIN disk' /\ reported'[p] = reported[p]
              /\ mixed' = mixed
          BY <1>2, <1>14, <1>15, <3>2, <4>1, <4>2
        <4>4. QED
          BY <4>2, <4>3
      <3>3. QED
        BY <3>1, <3>2
    <2>4. QED
      BY <2>3 DEF UploadsStored, Shows
  <1>21. QED
    BY <1>9, <1>10, <1>18, <1>19, <1>20 DEF UploadInv

LEMMA UploadStep == UploadInv /\ [NextUploads]_uploadVars => UploadInv'
  <1> SUFFICES ASSUME UploadInv, [NextUploads]_uploadVars
               PROVE  UploadInv'
    OBVIOUS
  <1>1. CASE NextUploads
    BY <1>1, BeginKeeps, ParsingKeeps, FieldsKeep, OpenKeeps, WriteKeeps DEF NextUploads, GoesOn
  <1>2. CASE UNCHANGED uploadVars
    BY <1>2 DEF uploadVars, UploadInv, DiskTyped, HasFile, Opens, Target,
                UploadsStored, Writing
  <1>3. QED
    BY <1>1, <1>2

LEMMA UploadHolds == UploadsSpec => []UploadInv
  BY UploadInitially, UploadStep, PTL DEF UploadsSpec

LEMMA UploadsTyped ==
    ASSUME UploadInv
    PROVE  UploadsTypeOK
  <1>1. ASSUME NEW u \in Uploaders
        PROVE  /\ up[u].pc \in {"idle", "parse", "save", "write"}
               /\ up[u].fields \in Seq(Parts) /\ up[u].open \in BOOLEAN
               /\ up[u].pc # "idle" =>
                     /\ up[u].owner \in Owners /\ up[u].body \in Multiparts
                     /\ up[u].pos \in 1..(Len(up[u].body.parts) + 1)
               /\ up[u].pc = "write" => up[u].fields # <<>>
    <2>1. UploadOK(up[u])
      BY DEF UploadInv
    <2>2. up[u].pos \in Nat \ {0}
      BY <2>1 DEF UploadOK, UploadJobs
    <2>3. up[u].pc # "idle" => Len(up[u].body.parts) \in Nat
      BY <2>1, UploadsAssumption DEF UploadOK
    <2>4. up[u].pc # "idle" => up[u].pos \in 1..(Len(up[u].body.parts) + 1)
      BY <2>1, <2>2, <2>3 DEF UploadOK
    <2>5. QED
      BY <2>1, <2>4 DEF UploadOK, UploadJobs
  <1>2. QED
    BY <1>1 DEF UploadInv, DiskTyped, UploadsTypeOK

(* The variables of Uploads keep their types.                              *)
THEOREM UploadTypes == UploadsSpec => []UploadsTypeOK
  BY UploadHolds, UploadsTyped, PTL

(* POST /api/upload: unless the open or the write before its last report   *)
(* failed, a file that was reported as stored begins with the data that    *)
(* was reported last, up to one line end at its end, whenever nobody is    *)
(* writing it, however the threads interleave; and that is the whole file  *)
(* unless uploads of one user have overlapped on it.                       *)
THEOREM UploadsAreStored == UploadsSpec => []UploadsStored
  <1>1. UploadInv => UploadsStored
    BY DEF UploadInv
  <1>2. QED
    BY <1>1, UploadHolds, PTL

-----------------------------------------------------------------------------
(* Tools, for any callers, files and texts                                 *)

(* Replacing the first match where it stands is cutting it out and putting *)
(* the new text between what stands before and after it.                   *)
LEMMA ReplacedIsCut ==
    ASSUME NEW text \in Seq(Tokens), NEW i \in 1..Len(text), NEW n \in Tokens
    PROVE  Cut(text, i, <<n>>) = [text EXCEPT ![i] = n] /\ Cut(text, i, <<n>>) \in Seq(Tokens)
  <1> DEFINE l == Len(text)
             a == SubSeq(text, 1, i - 1)
             b == SubSeq(text, i + 1, l)
             r == [text EXCEPT ![i] = n]
  <1>1. l \in Nat /\ i \in Nat /\ 1 <= i /\ i <= l
    OBVIOUS
  <1>2. \A m \in 1..l : text[m] \in Tokens
    OBVIOUS
  <1> HIDE DEF l
  <1>3. a \in Seq(Tokens) /\ Len(a) = i - 1 /\ \A m \in 1..(i - 1) : a[m] = text[m]
    <2>1. i - 1 \in Int /\ \A m \in 1..(i - 1) : m \in 1..l
      BY <1>1
    <2>2. /\ a \in Seq(Tokens) /\ Len(a) = IF 1 <= i - 1 THEN i - 1 - 1 + 1 ELSE 0
          /\ \A m \in 1..(i - 1 - 1 + 1) : a[m] = text[1 + m - 1]
      BY <1>2, <2>1, SubSeqProperties
    <2> HIDE DEF a
    <2>3. i - 1 - 1 + 1 = i - 1 /\ \A m \in 1..(i - 1) : 1 + m - 1 = m
      BY <1>1
    <2>4. Len(a) = i - 1
      BY <1>1, <2>2, <2>3
    <2>5. QED
      BY <2>2, <2>3, <2>4
  <1>4. b \in Seq(Tokens) /\ Len(b) = l - i /\ \A m \in 1..(l - i) : b[m] = text[i + m]
    <2>1. i + 1 \in Int /\ l \in Int /\ \A m \in (i + 1)..l : m \in 1..l
      BY <1>1
    <2>2. /\ b \in Seq(Tokens) /\ Len(b) = IF i + 1 <= l THEN l - (i + 1) + 1 ELSE 0
          /\ \A m \in 1..(l - (i + 1) + 1) : b[m] = text[i + 1 + m - 1]
      BY <1>2, <2>1, SubSeqProperties
    <2> HIDE DEF b
    <2>3. l - (i + 1) + 1 = l - i /\ \A m \in 1..(l - i) : i + 1 + m - 1 = i + m
      BY <1>1
    <2>4. Len(b) = l - i
      BY <1>1, <2>2, <2>3
    <2>5. QED
      BY <2>2, <2>3, <2>4
  <1>5. <<n>> \in Seq(Tokens) /\ Len(<<n>>) = 1 /\ <<n>>[1] = n
    OBVIOUS
  <1> HIDE DEF a, b
  <1> DEFINE c == a \o <<n>>
             d == c \o b
  <1>6. /\ c \in Seq(Tokens) /\ Len(c) = i
        /\ \A m \in 1..(i - 1) : c[m] = text[m]
        /\ c[i] = n
    <2>1. c \in Seq(Tokens) /\ Len(c) = Len(a) + 1
      BY <1>3, <1>5, ConcatProperties
    <2>2. \A m \in 1..Len(c) : c[m] = IF m <= Len(a) THEN a[m] ELSE <<n>>[m - Len(a)]
      BY <1>3, <1>5, ConcatProperties
    <2> HIDE DEF c
    <2>3. /\ Len(c) = i /\ i \in 1..Len(c) /\ ~(i <= Len(a)) /\ i - Len(a) = 1
          /\ \A m \in 1..(i - 1) : m \in 1..Len(c) /\ m <= Len(a)
      BY <1>1, <1>3, <2>1
    <2>4. c[i] = n
      BY <1>5, <2>2, <2>3
    <2>5. \A m \in 1..(i - 1) : c[m] = text[m]
      BY <1>3, <2>2, <2>3
    <2>6. QED
      BY <2>1, <2>3, <2>4, <2>5
  <1> HIDE DEF c
  <1>7. /\ d \in Seq(Tokens) /\ Len(d) = l
        /\ \A m \in 1..l : d[m] = IF m <= i THEN c[m] ELSE b[m - i]
    <2>1. d \in Seq(Tokens) /\ Len(d) = Len(c) + Len(b)
      BY <1>4, <1>6, ConcatProperties
    <2>2. \A m \in 1..(Len(c) + Len(b)) :
             d[m] = IF m <= Len(c) THEN c[m] ELSE b[m - Len(c)]
      <3>1. c \in Seq(Tokens) /\ b \in Seq(Tokens)
        BY <1>4, <1>6
      <3>2. QED
        BY <3>1, ConcatProperties
    <2> HIDE DEF d
    <2>3. Len(d) = l
      BY <1>1, <1>4, <1>6, <2>1
    <2>4. QED
      BY <1>6, <2>1, <2>2, <2>3
  <1> HIDE DEF d
  <1>8. r \in Seq(Tokens) /\ Len(r) = l /\ \A m \in 1..l : r[m] = IF m = i THEN n ELSE text[m]
    BY <1>1 DEF l
  <1> HIDE DEF r
  <1>9. ASSUME NEW m \in 1..l
        PROVE  d[m] = r[m]
    <2>1. CASE m < i
      <3>1. m \in 1..(i - 1) /\ m <= i /\ m # i
        BY <1>1, <2>1
      <3>2. QED
        BY <1>6, <1>7, <1>8, <3>1
    <2>2. CASE m = i
      <3>1. i <= i
        BY <1>1
      <3>2. QED
        BY <1>6, <1>7, <1>8, <2>2, <3>1
    <2>3. CASE m > i
      <3>1. ~(m <= i) /\ m # i /\ m - i \in 1..(l - i) /\ i + (m - i) = m
        BY <1>1, <2>3
      <3>2. d[m] = b[m - i] /\ b[m - i] = text[i + (m - i)]
        BY <1>4, <1>7, <3>1
      <3>3. QED
        BY <1>8, <3>1, <3>2
    <2>4. QED
      BY <1>1, <2>1, <2>2, <2>3
  <1>10. d = r
    BY <1>7, <1>8, <1>9, SeqEqual
  <1>11. Cut(text, i, <<n>>) = d
    BY DEF Cut, a, b, c, d, l
  <1>12. QED
    BY <1>8, <1>10, <1>11 DEF r

CallJobs == [pc : {"idle", "writeOpen", "editRead", "editOpen", "write", "output", "wait"},
             tool : {"write_file", "edit_file", "execute_command", Nothing},
             file : ToolFiles \union {Nothing}, old : Tokens \union {Nothing},
             new : Seq(Tokens), text : Seq(Tokens), open : BOOLEAN,
             child : {"none", "alive", "exited"}]

Working(k) == k.pc \notin {"idle", "output", "wait"}

CallFits(k) ==
    /\ k \in CallJobs
    /\ k.pc \in {"output", "wait"} <=> k.child # "none"
    /\ Working(k) => k.file \in ToolFiles
    /\ k.pc \in {"writeOpen", "editRead", "editOpen"} => ~k.open
    /\ k.pc = "writeOpen" => k.tool = "write_file" /\ k.text = k.new
    /\ k.pc \in {"editRead", "editOpen"} =>
          k.tool = "edit_file" /\ \E n \in Tokens : k.new = <<n>>

(* What a caller that has the file to itself knows of its text: it is what *)
(* the calls before made of it, or empty, and what it is going to be is    *)
(* what this call is for.                                                  *)
Knows(k, text, exp) ==
    /\ ~k.open => text = exp
    /\ k.pc \in {"editOpen", "write"} => k.text = Effect(k, exp)
    /\ k.pc = "write" /\ k.open => text = <<>>

HasText(c) ==
    AtWork(c) /\ call[c].file \notin shared =>
        /\ \A d \in Callers \ {c} : ~Touches(d, call[c].file)
        /\ Knows(call[c], texts[call[c].file], expected[call[c].file])

(* A file that was opened exists.                                          *)
Opened(k, text) == k.pc = "write" /\ k.open => text \in Seq(Tokens)

TextsTyped ==
    /\ texts \in [ToolFiles -> Seq(Tokens) \union {Nothing}]
    /\ expected \in [ToolFiles -> Seq(Tokens) \union {Nothing}]
    /\ shared \subseteq ToolFiles /\ failed \subseteq ToolFiles /\ calls \in 0..MaxCalls

(* A file on which calls have overlapped starts with the text that was     *)
(* reported last, unless somebody has emptied it since.                    *)
Owns(k) == k.pc = "write" /\ k.open
Holds(d, h) == Owns(call[d]) /\ call[d].file = h
Starts(text, exp) == IF exp # Nothing THEN text = Overlay(exp, text) ELSE text = exp
SharedKept ==
    \A h \in shared \ failed :
        (\A d \in Callers : ~Holds(d, h)) => Starts(texts[h], expected[h])

ToolInv ==
    /\ call \in [Callers -> CallJobs]
    /\ \A c \in Callers : CallFits(call[c])
    /\ TextsTyped
    /\ \A c \in Callers : HasText(c) /\ Opened(call[c], texts[call[c].file])
    /\ SharedKept /\ ReportedEditsKept

LEMMA IdleCalls ==
    /\ IdleCall \in CallJobs /\ CallFits(IdleCall) /\ ~Working(IdleCall)
    /\ IdleCall.file = Nothing /\ IdleCall.open = FALSE /\ IdleCall.child = "none"
  <1>1. <<>> \in Seq(Tokens)
    OBVIOUS
  <1>2. /\ IdleCall \in CallJobs /\ IdleCall.pc = "idle" /\ IdleCall.child = "none"
        /\ IdleCall.file = Nothing /\ IdleCall.open = FALSE
    BY <1>1 DEF IdleCall, CallJobs
  <1>3. QED
    BY <1>2 DEF CallFits, Working

LEMMA ToolsInitially == InitTools => ToolInv
  <1> SUFFICES ASSUME InitTools
               PROVE  ToolInv
    OBVIOUS
  <1>1. 0 \in 0..MaxCalls
    BY ToolsAssumption
  <1>2. TextsTyped
    BY <1>1, ToolsAssumption DEF InitTools, TextsTyped
  <1>3. call \in [Callers -> CallJobs] /\ \A c \in Callers : call[c] = IdleCall
    BY IdleCalls DEF InitTools
  <1>4. QED
    BY <1>2, <1>3, IdleCalls
    DEF InitTools, ToolInv, HasText, Opened, AtWork, Working, SharedKept, ReportedEditsKept

LEMMA StartsItself ==
    ASSUME NEW text \in Seq(Tokens) \union {Nothing}
    PROVE  Starts(text, text)
  <1>1. CASE text \in Seq(Tokens)
    <2>1. Len(text) \in Nat
      BY <1>1
    <2>2. SubSeq(text, Len(text) + 1, Len(text)) = <<>>
      BY <1>1, <2>1, SubSeqEmpty
    <2>3. text \o <<>> = text
      BY <1>1
    <2>4. QED
      BY <2>2, <2>3 DEF Starts, Overlay
  <1>2. CASE text = Nothing
    BY <1>2 DEF Starts
  <1>3. QED
    BY <1>1, <1>2

(* Writing a text over itself and what follows it changes nothing.         *)
LEMMA OverlayStarts ==
    ASSUME NEW s \in Seq(Tokens), NEW old \in Seq(Tokens)
    PROVE  Starts(Overlay(s, old), s)
  <1> DEFINE r == SubSeq(old, Len(s) + 1, Len(old))
             t == s \o r
             q == SubSeq(t, Len(s) + 1, Len(t))
  <1>1. Len(s) \in Nat /\ Len(old) \in Nat /\ \A i \in 1..Len(old) : old[i] \in Tokens
    OBVIOUS
  <1>2. r \in Seq(Tokens)
    <2>1. Len(s) + 1 \in Int /\ Len(old) \in Int /\ Len(s) + 1 >= 1
      BY <1>1
    <2>2. \A i \in (Len(s) + 1)..Len(old) : old[i] \in Tokens
      BY <1>1
    <2>3. QED
      BY <2>1, <2>2, SubSeqProperties
  <1> HIDE DEF r
  <1>3. /\ t \in Seq(Tokens) /\ Len(t) = Len(s) + Len(r) /\ Len(r) \in Nat
        /\ \A i \in 1..Len(r) : t[Len(s) + i] = r[i]
    BY <1>1, <1>2, ConcatProperties
  <1> HIDE DEF t
  <1>4. q = r
    <2>1. /\ Len(s) + 1 \in Int /\ Len(t) \in Int
          /\ \A i \in (Len(s) + 1)..Len(t) : t[i] \in Tokens
      BY <1>1, <1>3
    <2>2. /\ q \in Seq(Tokens)
          /\ Len(q) = IF Len(s) + 1 <= Len(t) THEN Len(t) - (Len(s) + 1) + 1 ELSE 0
          /\ \A i \in 1..(Len(t) - (Len(s) + 1) + 1) : q[i] = t[Len(s) + 1 + i - 1]
      BY <2>1, SubSeqProperties
    <2> HIDE DEF q
    <2>3. Len(t) - (Len(s) + 1) + 1 = Len(r)
      BY <1>1, <1>3
    <2>4. Len(q) = Len(r)
      BY <1>1, <1>3, <2>2, <2>3
    <2>5. \A i \in 1..Len(r) : q[i] = r[i]
      <3>1. \A i \in 1..Len(r) : Len(s) + 1 + i - 1 = Len(s) + i
        BY <1>1, <1>3
      <3>2. QED
        BY <1>3, <2>2, <2>3, <3>1
    <2>6. QED
      BY <1>2, <2>2, <2>4, <2>5, SeqEqual
  <1>5. s # Nothing
    BY ToolsAssumption
  <1>6. Overlay(s, old) = t
    BY DEF Overlay, t, r
  <1>7. Overlay(s, t) = s \o q
    BY DEF Overlay
  <1>8. QED
    BY <1>4, <1>5, <1>6, <1>7 DEF Starts, t

(* A step of a call that has begun: it stays with its file, and no other   *)
(* file is changed.                                                        *)
LEMMA CallStep ==
    ASSUME ToolInv, NEW c \in Callers, NEW k, CallFits(k), call' = [call EXCEPT ![c] = k],
           Working(k) => AtWork(c) /\ k.file = call[c].file,
           TextsTyped', shared' = shared,
           \A g \in ToolFiles : ~Touches(c, g) =>
               /\ texts'[g] = texts[g] /\ expected'[g] = expected[g]
               /\ g \in failed' <=> g \in failed,
           Working(k) /\ k.file \notin shared => Knows(k, texts'[k.file], expected'[k.file]),
           AtWork(c) /\ ~Working(k) /\ call[c].file \notin shared \union failed' =>
               texts'[call[c].file] = expected'[call[c].file],
           (/\ AtWork(c) /\ call[c].file \in shared \ failed' /\ ~Owns(k)
            /\ \A d \in Callers \ {c} : ~Holds(d, call[c].file))
               => Starts(texts'[call[c].file], expected'[call[c].file]),
           \A g \in ToolFiles : texts[g] \in Seq(Tokens) => texts'[g] \in Seq(Tokens),
           Opened(k, texts'[k.file])
    PROVE  ToolInv'
  <1>1. call \in [Callers -> CallJobs] /\ k \in CallJobs
    BY DEF ToolInv, CallFits
  <1>2. /\ call' \in [Callers -> CallJobs] /\ call'[c] = k
        /\ \A d \in Callers : d # c => call'[d] = call[d]
    BY <1>1
  <1>3. \A d \in Callers : CallFits(call'[d])
    BY <1>2 DEF ToolInv
  <1>4. /\ \A d \in Callers : d # c => (AtWork(d)' <=> AtWork(d))
        /\ AtWork(c)' <=> Working(k)
    BY <1>2 DEF AtWork, Working
  <1>5. \A d \in Callers : AtWork(d) => call[d].file \in ToolFiles
    BY DEF ToolInv, CallFits, AtWork, Working
  <1>6. ASSUME NEW d \in Callers
        PROVE  HasText(d)'
    <2> SUFFICES ASSUME AtWork(d)', call'[d].file \notin shared'
                 PROVE  /\ \A e \in Callers \ {d} :
                              ~(AtWork(e)' /\ call'[e].file = call'[d].file)
                        /\ Knows(call'[d], texts'[call'[d].file], expected'[call'[d].file])
      BY DEF HasText, Touches
    <2>1. HasText(d) /\ AtWork(d) /\ call'[d].file = call[d].file
      BY <1>2, <1>4 DEF ToolInv
    <2>2. \A e \in Callers \ {d} : ~Touches(e, call[d].file)
      BY <2>1 DEF HasText
    <2>3. \A e \in Callers \ {d} : ~(AtWork(e)' /\ call'[e].file = call'[d].file)
      BY <1>2, <1>4, <2>1, <2>2 DEF Touches
    <2>4. CASE d = c
      BY <1>2, <1>4, <2>3, <2>4
    <2>5. CASE d # c
      <3>1. call'[d] = call[d] /\ ~Touches(c, call[d].file) /\ call[d].file \in ToolFiles
        BY <1>2, <1>5, <2>1, <2>2, <2>5
      <3>2. Knows(call[d], texts[call[d].file], expected[call[d].file])
        BY <2>1 DEF HasText
      <3>3. QED
        BY <2>3, <3>1, <3>2
    <2>6. QED
      BY <2>4, <2>5
  <1>7. ReportedEditsKept'
    <2>1. ASSUME NEW g \in ToolFiles \ failed', \A d \in Callers : ~Touches(d, g)'
          PROVE  IF g \in shared THEN Starts(texts'[g], expected'[g]) ELSE texts'[g] = expected'[g]
      <3>1. \A d \in Callers : d # c => ~Touches(d, g)
        BY <1>2, <1>4, <2>1 DEF Touches
      <3>2. CASE Touches(c, g)
        <4>1. AtWork(c) /\ call[c].file = g /\ ~Working(k)
          BY <1>2, <1>4, <2>1, <3>2 DEF Touches
        <4>2. ~Owns(k)
          BY <4>1 DEF Owns, Working
        <4>3. \A d \in Callers \ {c} : ~Holds(d, g)
          BY <3>1 DEF Touches, Holds, Owns, AtWork
        <4>4. QED
          BY <2>1, <4>1, <4>2, <4>3
      <3>3. CASE ~Touches(c, g)
        <4>1. IF g \in shared THEN Starts(texts[g], expected[g]) ELSE texts[g] = expected[g]
          BY <2>1, <3>1, <3>3 DEF ToolInv, ReportedEditsKept, Starts
        <4>2. QED
          BY <3>3, <4>1
      <3>4. QED
        BY <3>2, <3>3
    <2>2. QED
      BY <2>1 DEF ReportedEditsKept, Starts
  <1>10. SharedKept'
    <2>1. ASSUME NEW g \in shared \ failed', \A d \in Callers : ~Holds(d, g)'
          PROVE  Starts(texts'[g], expected'[g])
      <3>1. \A d \in Callers \ {c} : ~Holds(d, g)
        BY <1>2, <2>1 DEF Holds
      <3>2. CASE Touches(c, g)
        <4>1. AtWork(c) /\ call[c].file = g
          BY <3>2 DEF Touches
        <4>2. ~Owns(k)
          <5>1. Owns(k) => Working(k)
            BY DEF Owns, Working
          <5>2. QED
            BY <1>2, <2>1, <4>1, <5>1 DEF Holds
        <4>3. QED
          BY <2>1, <3>1, <4>1, <4>2
      <3>3. CASE ~Touches(c, g)
        <4>1. ~Holds(c, g)
          BY <3>3 DEF Holds, Owns, Touches, AtWork
        <4>2. g \in ToolFiles
          BY DEF ToolInv, TextsTyped
        <4>3. Starts(texts[g], expected[g])
          BY <2>1, <3>1, <3>3, <4>1, <4>2 DEF ToolInv, SharedKept
        <4>4. QED
          BY <3>3, <4>2, <4>3
      <3>4. QED
        BY <3>2, <3>3
    <2>2. QED
      BY <2>1 DEF SharedKept
  <1>8. ASSUME NEW d \in Callers
        PROVE  Opened(call'[d], texts'[call'[d].file])
    <2>1. CASE d = c
      BY <1>2, <2>1
    <2>2. CASE d # c
      <3>1. Opened(call[d], texts[call[d].file]) /\ call'[d] = call[d]
        BY <1>2, <2>2 DEF ToolInv
      <3>2. QED
        BY <1>5, <3>1 DEF Opened, AtWork
    <2>3. QED
      BY <2>1, <2>2
  <1>9. QED
    BY <1>2, <1>3, <1>6, <1>7, <1>8, <1>10 DEF ToolInv

(* A call begins on a file: with another one at work there, it is shared;  *)
(* otherwise the histories start from what is there.                       *)
LEMMA BeginStep ==
    ASSUME ToolInv, NEW c \in Callers, NEW k, CallFits(k), Begin(c, k), k.open = FALSE,
           Working(k) => k.pc \in {"writeOpen", "editRead"}
    PROVE  ToolInv'
  <1> DEFINE h == k.file
             mine == {h} \intersect ToolFiles
             met == {g \in mine : \E d \in Callers \ {c} : Touches(d, g)}
             alone == mine \ met
  <1>1. /\ call \in [Callers -> CallJobs] /\ k \in CallJobs /\ ~AtWork(c)
        /\ call' = [call EXCEPT ![c] = k] /\ texts' = texts
        /\ shared' = (shared \union met) \ alone /\ failed' = failed \ alone
        /\ expected' = [g \in ToolFiles |->
              IF g \in alone \intersect (shared \union failed) THEN texts[g] ELSE expected[g]]
    BY DEF ToolInv, CallFits, Begin, AtWork
  <1>2. /\ call' \in [Callers -> CallJobs] /\ call'[c] = k
        /\ \A d \in Callers : d # c => call'[d] = call[d]
    BY <1>1
  <1>3. \A d \in Callers : CallFits(call'[d])
    BY <1>2 DEF ToolInv
  <1>4. /\ \A d \in Callers : d # c => (AtWork(d)' <=> AtWork(d))
        /\ AtWork(c)' <=> Working(k)
    BY <1>2 DEF AtWork, Working
  <1>5. TextsTyped'
    <2>1. calls < MaxCalls /\ calls' = calls + 1 /\ calls \in 0..MaxCalls /\ MaxCalls \in Nat
      BY ToolsAssumption DEF Begin, ToolInv, TextsTyped
    <2>2. calls' \in 0..MaxCalls
      BY <2>1
    <2>3. /\ met \subseteq ToolFiles /\ TextsTyped
          /\ texts \in [ToolFiles -> Seq(Tokens) \union {Nothing}]
          /\ expected \in [ToolFiles -> Seq(Tokens) \union {Nothing}]
      BY DEF ToolInv, TextsTyped
    <2> HIDE DEF met, alone
    <2>4. expected' \in [ToolFiles -> Seq(Tokens) \union {Nothing}]
      BY <1>1, <2>3
    <2>5. shared' \subseteq ToolFiles /\ failed' \subseteq ToolFiles
      BY <1>1, <2>3 DEF TextsTyped
    <2>6. QED
      BY <1>1, <2>2, <2>3, <2>4, <2>5 DEF TextsTyped
  <1>10. ASSUME NEW g \in ToolFiles
         PROVE  /\ g # h => /\ g \in shared' <=> g \in shared
                            /\ g \in failed' <=> g \in failed
                            /\ expected'[g] = expected[g]
                /\ g = h /\ (\E d \in Callers : Touches(d, g)) =>
                      /\ g \in shared' /\ expected'[g] = expected[g]
                      /\ g \in failed' <=> g \in failed
                /\ g = h /\ (\A d \in Callers : ~Touches(d, g)) =>
                      /\ g \notin shared' /\ texts[g] = expected'[g]
    <2>1. ~Touches(c, g)
      BY <1>1 DEF Touches
    <2>2. g \in met <=> g = h /\ \E d \in Callers : Touches(d, g)
      BY <2>1
    <2>3. g \in alone <=> g = h /\ \A d \in Callers : ~Touches(d, g)
      BY <2>2
    <2>4. expected'[g] = IF g \in alone /\ g \in shared \union failed THEN texts[g] ELSE expected[g]
      BY <1>1
    <2> HIDE DEF met, alone
    <2>5. g \in alone /\ g \notin shared \union failed => texts[g] = expected[g]
      BY <2>3 DEF ToolInv, ReportedEditsKept
    <2>6. QED
      BY <1>1, <2>2, <2>3, <2>4, <2>5
  <1> HIDE DEF met, alone, h
  <1>6. ASSUME NEW d \in Callers
        PROVE  HasText(d)'
    <2> SUFFICES ASSUME AtWork(d)', call'[d].file \notin shared'
                 PROVE  /\ \A e \in Callers \ {d} :
                              ~(AtWork(e)' /\ call'[e].file = call'[d].file)
                        /\ Knows(call'[d], texts'[call'[d].file], expected'[call'[d].file])
      BY DEF HasText, Touches
    <2>1. CASE d = c
      <3>1. Working(k) /\ h \in ToolFiles /\ h \notin shared'
        BY <1>2, <1>4, <2>1 DEF CallFits, h
      <3>2. \A e \in Callers : ~Touches(e, h)
        BY <1>10, <3>1
      <3>3. texts[h] = expected'[h]
        BY <1>10, <3>1, <3>2
      <3>4. Knows(k, texts[h], expected'[h])
        BY <3>1, <3>3 DEF Knows
      <3>5. QED
        BY <1>1, <1>2, <1>4, <2>1, <3>2, <3>4 DEF Touches, h
    <2>2. CASE d # c
      <3>1. call'[d] = call[d] /\ AtWork(d) /\ HasText(d) /\ call[d].file \in ToolFiles
        BY <1>2, <1>4, <2>2 DEF ToolInv, CallFits, AtWork, Working
      <3>2. call[d].file # h
        BY <1>10, <2>2, <3>1 DEF Touches
      <3>3. call[d].file \notin shared /\ expected'[call[d].file] = expected[call[d].file]
        BY <1>10, <3>1, <3>2
      <3>4. /\ \A e \in Callers \ {d} : ~Touches(e, call[d].file)
            /\ Knows(call[d], texts[call[d].file], expected[call[d].file])
        BY <3>1, <3>3 DEF HasText
      <3>5. QED
        BY <1>1, <1>2, <1>4, <3>1, <3>2, <3>3, <3>4 DEF Touches, h
    <2>3. QED
      BY <2>1, <2>2
  <1>7. ReportedEditsKept'
    <2>1. ASSUME NEW g \in ToolFiles \ failed', \A d \in Callers : ~Touches(d, g)'
          PROVE  IF g \in shared' THEN Starts(texts[g], expected'[g]) ELSE texts[g] = expected'[g]
      <3>1. \A d \in Callers : ~Touches(d, g)
        BY <1>1, <1>2, <1>4, <2>1 DEF Touches
      <3>2. CASE g = h
        BY <1>10, <3>1, <3>2
      <3>3. CASE g # h
        <4>1. IF g \in shared THEN Starts(texts[g], expected[g]) ELSE texts[g] = expected[g]
          BY <1>10, <2>1, <3>1, <3>3 DEF ToolInv, ReportedEditsKept, Starts
        <4>2. QED
          BY <1>10, <3>3, <4>1
      <3>4. QED
        BY <3>2, <3>3
    <2>2. QED
      BY <1>1, <2>1 DEF ReportedEditsKept, Starts
  <1>11. SharedKept'
    <2>1. ASSUME NEW g \in shared' \ failed', \A d \in Callers : ~Holds(d, g)'
          PROVE  Starts(texts[g], expected'[g])
      <3>1. g \in ToolFiles
        BY <1>5 DEF TextsTyped
      <3>2. \A d \in Callers : ~Holds(d, g)
        BY <1>1, <1>2, <2>1 DEF Holds, Owns, AtWork
      <3>3. expected'[g] = expected[g] /\ g \notin failed
        BY <1>10, <2>1, <3>1
      <3>4. CASE g \in shared
        BY <3>2, <3>3, <3>4 DEF ToolInv, SharedKept
      <3>5. CASE g \notin shared
        <4>1. PICK d \in Callers : Touches(d, g)
          BY <1>10, <2>1, <3>1, <3>5
        <4>2. Knows(call[d], texts[g], expected[g])
          BY <3>5, <4>1 DEF ToolInv, HasText, Touches
        <4>3. ~call[d].open
          <5>1. CallFits(call[d]) /\ AtWork(d) /\ ~Owns(call[d])
            BY <3>2, <4>1 DEF ToolInv, Touches, Holds
          <5>2. QED
            BY <5>1 DEF CallFits, CallJobs, AtWork, Owns
        <4>4. texts[g] = expected[g] /\ texts[g] \in Seq(Tokens) \union {Nothing}
          BY <3>1, <4>2, <4>3 DEF Knows, ToolInv, TextsTyped
        <4>5. QED
          BY <3>3, <4>4, StartsItself
      <3>6. QED
        BY <3>4, <3>5
    <2>2. QED
      BY <1>1, <2>1 DEF SharedKept
  <1>8. \A d \in Callers : Opened(call'[d], texts'[call'[d].file])
    BY <1>1, <1>2 DEF ToolInv, Opened
  <1>9. QED
    BY <1>2, <1>3, <1>5, <1>6, <1>7, <1>8, <1>11 DEF ToolInv

LEMMA CallsBegin ==
    ASSUME ToolInv, NEW c \in Callers, CallWrite(c) \/ CallEdit(c) \/ CallCommand(c)
    PROVE  ToolInv'
  <1>1. CASE CallWrite(c)
    <2>1. PICK h \in ToolFiles, w \in Written :
             Begin(c, [IdleCall EXCEPT !.pc = "writeOpen", !.tool = "write_file",
                                 !.file = h, !.new = w, !.text = w])
      BY <1>1 DEF CallWrite
    <2> DEFINE k == [IdleCall EXCEPT !.pc = "writeOpen", !.tool = "write_file",
                                 !.file = h, !.new = w, !.text = w]
    <2>2. w \in Seq(Tokens)
      BY ToolsAssumption
    <2>3. /\ k \in CallJobs /\ k.pc = "writeOpen" /\ k.tool = "write_file" /\ k.file = h
          /\ k.text = w /\ k.new = w /\ k.child = "none" /\ k.open = FALSE
      BY <2>2, IdleCalls DEF CallJobs
    <2> HIDE DEF k
    <2>4. CallFits(k)
      BY <2>3 DEF CallFits
    <2>5. Begin(c, k)
      BY <2>1 DEF k
    <2>6. QED
      BY <2>3, <2>4, <2>5, BeginStep
  <1>2. CASE CallEdit(c)
    <2>1. PICK h \in ToolFiles, o \in Tokens \union {Nothing}, n \in Tokens :
             Begin(c, [IdleCall EXCEPT !.pc = "editRead", !.tool = "edit_file",
                                 !.file = h, !.old = o, !.new = <<n>>])
      BY <1>2 DEF CallEdit
    <2> DEFINE k == [IdleCall EXCEPT !.pc = "editRead", !.tool = "edit_file",
                                 !.file = h, !.old = o, !.new = <<n>>]
    <2>2. <<n>> \in Seq(Tokens)
      OBVIOUS
    <2>3. /\ k \in CallJobs /\ k.pc = "editRead" /\ k.tool = "edit_file" /\ k.file = h
          /\ k.new = <<n>> /\ k.child = "none" /\ k.open = FALSE
      BY <2>2, IdleCalls DEF CallJobs
    <2> HIDE DEF k
    <2>4. CallFits(k)
      BY <2>3 DEF CallFits
    <2>5. Begin(c, k)
      BY <2>1 DEF k
    <2>6. QED
      BY <2>3, <2>4, <2>5, BeginStep
  <1>3. CASE CallCommand(c)
    <2> DEFINE k == [IdleCall EXCEPT !.pc = "output", !.tool = "execute_command",
                               !.child = "alive"]
    <2>1. Begin(c, k)
      BY <1>3 DEF CallCommand
    <2>2. /\ k \in CallJobs /\ k.pc = "output" /\ k.child = "alive" /\ k.open = FALSE
      BY IdleCalls DEF CallJobs
    <2> HIDE DEF k
    <2>3. CallFits(k) /\ ~Working(k)
      BY <2>2 DEF CallFits, Working
    <2>4. QED
      BY <2>1, <2>2, <2>3, BeginStep
  <1>4. QED
    BY <1>1, <1>2, <1>3

(* The steps of execute_command, which are nowhere near a file. *)
LEMMA CommandKeeps ==
    ASSUME ToolInv, NEW c \in Callers,
           ReadsLine(c) \/ ReadsEnd(c) \/ ChildExits(c) \/ CommandEnds(c)
    PROVE  ToolInv'
  <1> DEFINE j == call[c]
  <1>1. /\ call \in [Callers -> CallJobs] /\ CallFits(j) /\ TextsTyped
        /\ UNCHANGED <<texts, expected, shared, failed, calls>>
    BY DEF ToolInv, ReadsLine, ReadsEnd, Waits, ChildExits, CommandEnds
  <1>2. ~AtWork(c)
    BY <1>1 DEF ReadsLine, ReadsEnd, Waits, ChildExits, CommandEnds, AtWork, CallFits
  <1>3. TextsTyped'
    BY <1>1 DEF TextsTyped
  <1>4. \E k : call' = [call EXCEPT ![c] = k] /\ CallFits(k) /\ ~Working(k)
    <2>1. CASE ReadsLine(c) \/ ReadsEnd(c)
      <3> DEFINE k == [j EXCEPT !.pc = "wait"]
      <3>1. call' = [call EXCEPT ![c] = k] /\ j.pc = "output"
        BY <1>1, <2>1 DEF ReadsLine, ReadsEnd, Waits
      <3>2. k \in CallJobs /\ k.pc = "wait" /\ k.child = j.child
        BY <1>1 DEF CallFits, CallJobs
      <3>3. CallFits(k) /\ ~Working(k)
        BY <1>1, <3>1, <3>2 DEF CallFits, Working
      <3>4. QED
        BY <3>1, <3>3
    <2>2. CASE ChildExits(c)
      <3> DEFINE k == [j EXCEPT !.child = "exited"]
      <3>1. call' = [call EXCEPT ![c] = k] /\ j.child = "alive"
        BY <1>1, <2>2 DEF ChildExits
      <3>2. k \in CallJobs /\ k.pc = j.pc /\ k.child = "exited"
        BY <1>1 DEF CallFits, CallJobs
      <3>3. CallFits(k) /\ ~Working(k)
        BY <1>1, <3>1, <3>2 DEF CallFits, Working
      <3>4. QED
        BY <3>1, <3>3
    <2>3. CASE CommandEnds(c)
      BY <2>3, IdleCalls DEF CommandEnds, Result
    <2>4. QED
      BY <2>1, <2>2, <2>3
  <1>5. PICK k : call' = [call EXCEPT ![c] = k] /\ CallFits(k) /\ ~Working(k)
    BY <1>4
  <1>6. Opened(k, texts'[k.file])
    BY <1>5 DEF Opened, Working
  <1>7. QED
    BY <1>1, <1>2, <1>3, <1>5, <1>6, CallStep

LEMMA SameEffect ==
    ASSUME NEW j, NEW k, j.tool = k.tool, j.old = k.old, j.new = k.new, NEW text
    PROVE  Effect(j, text) = Effect(k, text)
  BY DEF Effect

(* What edit_file puts together is what it makes of a text when alone.     *)
LEMMA EditsRight ==
    ASSUME NEW k \in CallJobs, k.tool = "edit_file", NEW n \in Tokens, k.new = <<n>>,
           NEW text \in Seq(Tokens), Matches(text, k.old)
    PROVE  /\ Replaced(text, k.old, k.new) \in Seq(Tokens)
           /\ Replaced(text, k.old, k.new) = Effect(k, text)
  <1>1. CASE k.old = Nothing
    <2>1. Replaced(text, k.old, k.new) = k.new \o text /\ Effect(k, text) = k.new \o text
      BY <1>1 DEF Replaced, Effect
    <2>2. k.new \in Seq(Tokens)
      BY DEF CallJobs
    <2>3. k.new \o text \in Seq(Tokens)
      BY <2>2
    <2>4. QED
      BY <2>1, <2>3
  <1>2. CASE k.old # Nothing
    <2> DEFINE S == Found(text, k.old)
               i == Min(S)
    <2>1. S # {} /\ S \subseteq 1..Len(text) /\ S \subseteq Nat
      BY <1>2 DEF Matches, Found
    <2>2. Replaced(text, k.old, k.new) = [text EXCEPT ![i] = n]
      BY <1>2 DEF Replaced
    <2>3. Effect(k, text) = Cut(text, CHOOSE m \in S : \A z \in S : m <= z, k.new)
      BY <1>2, <2>1 DEF Effect
    <2> HIDE DEF S
    <2>4. i \in S
      BY <2>1, LeastOf
    <2>5. i = CHOOSE m \in S : \A z \in S : m <= z
      BY DEF Min
    <2>6. i \in 1..Len(text)
      BY <2>1, <2>4
    <2> HIDE DEF i
    <2>7. Cut(text, i, <<n>>) = [text EXCEPT ![i] = n] /\ Cut(text, i, <<n>>) \in Seq(Tokens)
      BY <2>6, ReplacedIsCut
    <2>8. QED
      BY <2>2, <2>3, <2>5, <2>7
  <1>3. QED
    BY <1>1, <1>2

(* A call that ends with an error leaves its file as it found it. *)
LEMMA ErrorKeeps ==
    ASSUME ToolInv, NEW c \in Callers, AtWork(c), call[c].pc # "write", Result(c),
           UNCHANGED <<texts, expected, shared, failed, calls>>
    PROVE  ToolInv'
  <1>1. call' = [call EXCEPT ![c] = IdleCall]
    BY DEF Result
  <1>2. TextsTyped'
    BY DEF ToolInv, TextsTyped
  <1>3. call[c].file \notin shared => texts[call[c].file] = expected[call[c].file]
    <2>1. HasText(c) /\ ~call[c].open
      BY DEF ToolInv, CallFits, CallJobs, AtWork
    <2>2. QED
      BY <2>1 DEF HasText, Knows
  <1>6. call[c].file \in shared \ failed /\ (\A d \in Callers \ {c} : ~Holds(d, call[c].file))
           => Starts(texts[call[c].file], expected[call[c].file])
    <2>1. ~Holds(c, call[c].file)
      BY DEF Holds, Owns
    <2>2. QED
      BY <2>1 DEF ToolInv, SharedKept
  <1>4. Opened(IdleCall, texts'[IdleCall.file])
    BY IdleCalls DEF Opened
  <1>5. QED
    BY <1>1, <1>2, <1>3, <1>4, <1>6, IdleCalls, CallStep

(* What the call was for is settled when it has read the file; then the    *)
(* file is opened, which empties it.                                       *)
LEMMA OpensKeeps ==
    ASSUME ToolInv, NEW c \in Callers, WriteOpens(c) \/ EditOpens(c)
    PROVE  ToolInv'
  <1> DEFINE j == call[c]
             h == j.file
  <1>1. /\ call \in [Callers -> CallJobs] /\ CallFits(j) /\ TextsTyped /\ HasText(c)
        /\ UNCHANGED <<expected, shared, failed, calls>>
        /\ j.pc \in {"writeOpen", "editOpen"}
    BY DEF ToolInv, WriteOpens, EditOpens
  <1>2. AtWork(c) /\ Working(j) /\ h \in ToolFiles
    BY <1>1 DEF AtWork, Working, CallFits
  <1>3. h \notin shared => j.text = Effect(j, expected[h])
    <2>1. SUFFICES ASSUME h \notin shared
                   PROVE  j.text = Effect(j, expected[h])
      OBVIOUS
    <2>2. Knows(j, texts[h], expected[h])
      BY <1>1, <1>2, <2>1 DEF HasText
    <2>3. CASE j.pc = "writeOpen"
      BY <1>1, <2>3 DEF CallFits, Effect
    <2>4. CASE j.pc = "editOpen"
      BY <2>2, <2>4 DEF Knows
    <2>5. QED
      BY <1>1, <2>3, <2>4
  <1>4. CASE Result(c) /\ UNCHANGED texts
    BY <1>1, <1>2, <1>4, ErrorKeeps
  <1>5. ASSUME NEW o \in BOOLEAN, call' = [call EXCEPT ![c] = [j EXCEPT !.pc = "write", !.open = o]],
               IF o THEN texts' = [texts EXCEPT ![h] = <<>>] ELSE TRUE,
               o \/ (texts' = texts /\ j.open = FALSE)
        PROVE  ToolInv'
    <2> DEFINE k == [j EXCEPT !.pc = "write", !.open = o]
    <2>1. /\ k \in CallJobs /\ k.pc = "write" /\ k.tool = j.tool /\ k.file = h /\ k.old = j.old
          /\ k.new = j.new /\ k.text = j.text /\ k.open = o /\ k.child = j.child
      BY <1>1 DEF CallFits, CallJobs
    <2> HIDE DEF k
    <2>2. CallFits(k) /\ Working(k)
      BY <1>1, <1>2, <2>1 DEF CallFits, Working
    <2>3. call' = [call EXCEPT ![c] = k]
      BY <1>5 DEF k
    <2>4. /\ texts' \in [ToolFiles -> Seq(Tokens) \union {Nothing}]
          /\ \A g \in ToolFiles : g # h => texts'[g] = texts[g]
          /\ o => texts'[h] = <<>>
      <3>1. <<>> \in Seq(Tokens)
        OBVIOUS
      <3>2. CASE o
        BY <1>1, <1>2, <1>5, <3>1, <3>2 DEF TextsTyped
      <3>3. CASE ~o
        BY <1>1, <1>5, <3>3 DEF TextsTyped
      <3>4. QED
        BY <3>2, <3>3
    <2>5. TextsTyped'
      BY <1>1, <2>4 DEF TextsTyped
    <2>6. \A g \in ToolFiles : ~Touches(c, g) => texts'[g] = texts[g] /\ expected'[g] = expected[g]
      BY <1>1, <1>2, <2>4 DEF Touches
    <2>7. k.file \notin shared => Knows(k, texts'[k.file], expected'[k.file])
      <3>1. Effect(k, expected[h]) = Effect(j, expected[h])
        BY <2>1, SameEffect
      <3>2. CASE o
        BY <1>1, <1>3, <2>1, <2>4, <3>1, <3>2 DEF Knows
      <3>3. CASE ~o
        <4>1. h \notin shared => texts[h] = expected[h]
          BY <1>1, <1>2, <1>5, <3>3 DEF HasText, Knows
        <4>2. QED
          BY <1>1, <1>3, <1>5, <2>1, <3>1, <3>3, <4>1 DEF Knows
      <3>4. QED
        BY <3>2, <3>3
    <2>11. h \in shared \ failed /\ ~Owns(k) /\ (\A d \in Callers \ {c} : ~Holds(d, h))
              => Starts(texts'[h], expected'[h])
      <3>1. SUFFICES ASSUME h \in shared \ failed, ~o, \A d \in Callers \ {c} : ~Holds(d, h)
                     PROVE  Starts(texts'[h], expected'[h])
        BY <2>1 DEF Owns
      <3>2. texts' = texts /\ expected' = expected /\ ~Holds(c, h)
        BY <1>1, <1>5, <3>1 DEF Holds, Owns
      <3>3. Starts(texts[h], expected[h])
        BY <3>1, <3>2 DEF ToolInv, SharedKept
      <3>4. QED
        BY <3>2, <3>3
    <2>8. \A g \in ToolFiles : texts[g] \in Seq(Tokens) => texts'[g] \in Seq(Tokens)
      <3>1. <<>> \in Seq(Tokens)
        OBVIOUS
      <3>2. QED
        BY <1>5, <2>4, <3>1
    <2>9. Opened(k, texts'[k.file])
      <3>1. <<>> \in Seq(Tokens)
        OBVIOUS
      <3>2. QED
        BY <2>1, <2>4, <3>1 DEF Opened
    <2>10. QED
      BY <1>1, <1>2, <2>1, <2>2, <2>3, <2>5, <2>6, <2>7, <2>8, <2>9, <2>11, CallStep
  <1>6. QED
    <2>1. CASE WriteOpens(c)
      <3>1. \/ Result(c) /\ UNCHANGED texts
            \/ /\ texts' = [texts EXCEPT ![h] = <<>>]
               /\ call' = [call EXCEPT ![c] = [j EXCEPT !.pc = "write", !.open = TRUE]]
        BY <1>1, <2>1 DEF WriteOpens
      <3>2. QED
        BY <1>4, <1>5, <3>1
    <2>2. CASE EditOpens(c)
      <3>1. \/ /\ texts' = [texts EXCEPT ![h] = <<>>]
               /\ call' = [call EXCEPT ![c] = [j EXCEPT !.pc = "write", !.open = TRUE]]
            \/ /\ texts' = texts
               /\ call' = [call EXCEPT ![c] = [j EXCEPT !.pc = "write", !.open = FALSE]]
               /\ j.open = FALSE
        <4>1. j.open = FALSE /\ j \in CallJobs
          BY <1>1 DEF CallFits, CallJobs
        <4>2. [j EXCEPT !.pc = "write"] = [j EXCEPT !.pc = "write", !.open = FALSE]
          BY <4>1 DEF CallJobs
        <4>3. QED
          BY <1>1, <2>2, <4>1, <4>2 DEF EditOpens
      <3>2. QED
        BY <1>5, <3>1
    <2>3. QED
      BY <2>1, <2>2

LEMMA ReadsKeep ==
    ASSUME ToolInv, NEW c \in Callers, EditReads(c)
    PROVE  ToolInv'
  <1> DEFINE j == call[c]
             h == j.file
             k == [j EXCEPT !.pc = "editOpen", !.text = Replaced(texts[h], j.old, j.new)]
  <1>1. /\ call \in [Callers -> CallJobs] /\ CallFits(j) /\ TextsTyped /\ HasText(c)
        /\ UNCHANGED <<texts, expected, shared, failed, calls>>
        /\ j.pc = "editRead" /\ Matches(texts[h], j.old)
        /\ call' = [call EXCEPT ![c] = k]
    BY DEF ToolInv, EditReads
  <1>2. /\ AtWork(c) /\ h \in ToolFiles /\ j \in CallJobs /\ j.tool = "edit_file"
        /\ \E n \in Tokens : j.new = <<n>>
    BY <1>1 DEF AtWork, Working, CallFits
  <1>3. texts[h] \in Seq(Tokens)
    BY <1>1, <1>2 DEF TextsTyped, Matches
  <1>4. /\ Replaced(texts[h], j.old, j.new) \in Seq(Tokens)
        /\ Replaced(texts[h], j.old, j.new) = Effect(j, texts[h])
    BY <1>1, <1>2, <1>3, EditsRight
  <1>5. /\ k \in CallJobs /\ k.pc = "editOpen" /\ k.tool = j.tool /\ k.file = h /\ k.old = j.old
        /\ k.new = j.new /\ k.text = Effect(j, texts[h]) /\ k.child = j.child /\ k.open = j.open
    BY <1>2, <1>4 DEF CallJobs
  <1> HIDE DEF k
  <1>6. CallFits(k) /\ Working(k)
    BY <1>1, <1>2, <1>5 DEF CallFits, Working
  <1>7. TextsTyped'
    BY <1>1 DEF TextsTyped
  <1>8. k.file \notin shared => Knows(k, texts'[k.file], expected'[k.file])
    <2>1. h \notin shared => texts[h] = expected[h]
      BY <1>1, <1>2 DEF HasText, Knows, CallFits
    <2>2. Effect(k, texts[h]) = Effect(j, texts[h])
      BY <1>5, SameEffect
    <2>3. QED
      BY <1>1, <1>5, <2>1, <2>2 DEF Knows
  <1>9. Opened(k, texts'[k.file])
    BY <1>5 DEF Opened
  <1>11. h \in shared \ failed /\ (\A d \in Callers \ {c} : ~Holds(d, h))
            => Starts(texts'[h], expected'[h])
    <2>1. ~Holds(c, h) /\ texts' = texts /\ expected' = expected
      BY <1>1 DEF Holds, Owns
    <2>2. QED
      BY <2>1 DEF ToolInv, SharedKept
  <1>12. QED
    BY <1>1, <1>2, <1>5, <1>6, <1>7, <1>8, <1>9, <1>11, CallStep

(* The text is written, and success reported. *)
LEMMA TextWritten ==
    ASSUME ToolInv, NEW c \in Callers, WriteText(c)
    PROVE  ToolInv'
  <1> DEFINE j == call[c]
             h == j.file
  <1>1. /\ call \in [Callers -> CallJobs] /\ CallFits(j) /\ TextsTyped /\ HasText(c)
        /\ UNCHANGED <<shared, calls>> /\ j.pc = "write" /\ call' = [call EXCEPT ![c] = IdleCall]
        /\ \/ /\ j.open /\ texts' = [texts EXCEPT ![h] = Overlay(j.text, @)]
              /\ failed' = failed \ {h}
           \/ failed' = failed \union {h} /\ texts' = texts
        /\ expected' = [expected EXCEPT ![h] = IF h \in shared THEN j.text ELSE Effect(j, @)]
    BY DEF ToolInv, WriteText, Result
  <1>2. AtWork(c) /\ h \in ToolFiles /\ j.text \in Seq(Tokens)
    BY <1>1 DEF AtWork, Working, CallFits, CallJobs
  <1>3. h \notin shared => /\ j.text = Effect(j, expected[h])
                           /\ j.open => texts[h] = <<>>
    BY <1>1, <1>2 DEF HasText, Knows
  <1>4. /\ expected' \in [ToolFiles -> Seq(Tokens) \union {Nothing}] /\ expected'[h] = j.text
        /\ \A g \in ToolFiles : g # h => expected'[g] = expected[g]
    <2>1. expected' = [expected EXCEPT ![h] = j.text]
      BY <1>1, <1>3
    <2>2. QED
      BY <1>1, <1>2, <2>1 DEF TextsTyped
  <1>5. /\ failed' \subseteq ToolFiles
        /\ \A g \in ToolFiles : g # h => (g \in failed' <=> g \in failed)
        /\ h \notin failed' => j.open /\ texts' = [texts EXCEPT ![h] = Overlay(j.text, @)]
    BY <1>1, <1>2 DEF TextsTyped
  <1>6. j.open => texts[h] \in Seq(Tokens)
    BY <1>1 DEF ToolInv, Opened
  <1>7. /\ texts' \in [ToolFiles -> Seq(Tokens) \union {Nothing}]
        /\ \A g \in ToolFiles : g # h => texts'[g] = texts[g]
        /\ h \notin failed' => texts'[h] = Overlay(j.text, texts[h])
        /\ texts[h] \in Seq(Tokens) => texts'[h] \in Seq(Tokens)
    <2>1. CASE texts' = texts /\ h \in failed'
      BY <1>1, <2>1 DEF TextsTyped
    <2>2. CASE j.open /\ texts' = [texts EXCEPT ![h] = Overlay(j.text, @)]
      <3>1. Overlay(j.text, texts[h]) \in Seq(Tokens)
        BY <1>2, <1>6, <2>2, OverlayTyped
      <3>2. QED
        BY <1>1, <1>2, <2>2, <3>1 DEF TextsTyped
    <2>3. QED
      BY <1>1, <2>1, <2>2
  <1>8. TextsTyped'
    BY <1>1, <1>4, <1>5, <1>7 DEF TextsTyped
  <1>9. \A g \in ToolFiles : ~Touches(c, g) =>
            /\ texts'[g] = texts[g] /\ expected'[g] = expected[g]
            /\ g \in failed' <=> g \in failed
    BY <1>2, <1>4, <1>5, <1>7 DEF Touches
  <1>10. h \notin shared \union failed' => texts'[h] = expected'[h]
    <2>1. Overlay(j.text, <<>>) = j.text
      BY <1>2, OverEmpty
    <2>2. QED
      BY <1>3, <1>4, <1>5, <1>7, <2>1
  <1>11. h \notin failed' => Starts(texts'[h], expected'[h])
    BY <1>2, <1>4, <1>5, <1>6, <1>7, OverlayStarts
  <1>12. \A g \in ToolFiles : texts[g] \in Seq(Tokens) => texts'[g] \in Seq(Tokens)
    BY <1>7
  <1>13. Opened(IdleCall, texts'[IdleCall.file])
    BY IdleCalls DEF Opened
  <1>14. QED
    BY <1>1, <1>2, <1>8, <1>9, <1>10, <1>11, <1>12, <1>13, IdleCalls, CallStep

LEMMA ToolStep == ToolInv /\ [NextTools]_toolVars => ToolInv'
  <1> SUFFICES ASSUME ToolInv, [NextTools]_toolVars
               PROVE  ToolInv'
    OBVIOUS
  <1>1. ASSUME NEW c \in Callers, EditFails(c)
        PROVE  ToolInv'
    <2>1. AtWork(c) /\ call[c].pc # "write" /\ Result(c) /\ UNCHANGED <<texts, expected, shared, failed, calls>>
      BY <1>1 DEF EditFails, AtWork
    <2>2. QED
      BY <2>1, ErrorKeeps
  <1>2. CASE NextTools
    BY <1>1, <1>2, CallsBegin, CommandKeeps, OpensKeeps, ReadsKeep, TextWritten
    DEF NextTools, Works
  <1>3. CASE UNCHANGED toolVars
    BY <1>3 DEF toolVars, ToolInv, TextsTyped, HasText, AtWork, Touches, SharedKept, Holds,
                ReportedEditsKept
  <1>4. QED
    BY <1>2, <1>3

LEMMA ToolsHold == ToolsSpec => []ToolInv
  BY ToolsInitially, ToolStep, PTL DEF ToolsSpec

LEMMA ToolsTyped == ToolInv => ToolsTypeOK
  BY DEF ToolInv, TextsTyped, CallFits, CallJobs, ToolsTypeOK

(* The variables of Tools keep their types.                                *)
THEOREM ToolTypes == ToolsSpec => []ToolsTypeOK
  BY ToolsTyped, ToolsHold, PTL

(* write_file and edit_file: unless the last write on it failed, a file    *)
(* that nobody is at work on is what the calls that reported success make  *)
(* of it one after the other; and after calls that overlapped it starts    *)
(* with the text that the last of them reported.                           *)
THEOREM EditsAreKept == ToolsSpec => []ReportedEditsKept
  <1>1. ToolInv => ReportedEditsKept
    BY DEF ToolInv
  <1>2. QED
    BY <1>1, ToolsHold, PTL

-----------------------------------------------------------------------------
(* ServerConfig, for any threads, values and bodies                        *)

LineSet == [key : Names, val : Values \union {Garbled}]
Has(c, k) == c.ai /\ \E i \in DOMAIN c.lines : c.lines[i].key = k
OneLineEach(ls) == \A m, n \in DOMAIN ls : ls[m].key = ls[n].key => m = n
Readable(ls) == \A i \in DOMAIN ls : ls[i].val # Garbled

LEMMA KeysAreNames == Keys \subseteq Names /\ ProviderKey \in Names
  BY ConfigAssumption DEF Names

LEMMA FileValueIs ==
    ASSUME NEW c \in Confs, NEW k \in Names
    PROVE  /\ FileValue(c, k) \in Values \union {Garbled, Unset}
           /\ FileValue(c, k) # Unset <=> Has(c, k)
           /\ \A i \in DOMAIN c.lines :
                 c.ai /\ OneLineEach(c.lines) /\ c.lines[i].key = k
                     => FileValue(c, k) = c.lines[i].val
           /\ FileValue(c, k) # Garbled \/ ~Readable(c.lines)
  <1> DEFINE at == {i \in DOMAIN c.lines : c.lines[i].key = k}
  <1>1. c.lines \in Seq(LineSet) /\ c.ai \in BOOLEAN
    BY DEF Confs, Lines, LineSet
  <1>2. FileValue(c, k) = IF c.ai /\ at # {} THEN c.lines[Max(at)].val ELSE Unset
    BY DEF FileValue
  <1>3. at \subseteq 0..Len(c.lines) /\ Len(c.lines) \in Nat
    BY <1>1
  <1>4. at # {} => Max(at) \in at
    <2> HIDE DEF at
    <2>1. SUFFICES ASSUME at # {}
                   PROVE  Max(at) \in at
      OBVIOUS
    <2>2. QED
      BY <1>3, <2>1, GreatestOf
  <1>5. \A i \in DOMAIN c.lines : c.lines[i].val \in Values \union {Garbled}
    <2>1. \A i \in DOMAIN c.lines : c.lines[i] \in LineSet
      BY <1>1
    <2>2. QED
      BY <2>1 DEF LineSet
  <1>6. Unset \notin Values \union {Garbled}
    BY ConfigAssumption
  <1>7. Has(c, k) <=> c.ai /\ at # {}
    BY DEF Has
  <1>8. at # {} => Max(at) \in DOMAIN c.lines /\ c.lines[Max(at)].key = k
    BY <1>4
  <1> HIDE DEF at
  <1>9. \A i \in DOMAIN c.lines :
           OneLineEach(c.lines) /\ c.lines[i].key = k /\ at # {} => Max(at) = i
    BY <1>8 DEF OneLineEach
  <1>10. \A i \in DOMAIN c.lines : c.lines[i].key = k => at # {}
    BY DEF at
  <1>11. FileValue(c, k) # Garbled \/ ~Readable(c.lines)
    BY <1>2, <1>8, ConfigAssumption DEF Readable
  <1>12. FileValue(c, k) \in Values \union {Garbled, Unset} /\ (FileValue(c, k) # Unset <=> Has(c, k))
    BY <1>2, <1>5, <1>6, <1>7, <1>8
  <1>13. \A i \in DOMAIN c.lines :
            c.ai /\ OneLineEach(c.lines) /\ c.lines[i].key = k
                => FileValue(c, k) = c.lines[i].val
    BY <1>2, <1>9, <1>10
  <1>14. QED
    BY <1>11, <1>12, <1>13

(* No name or value of the lines contains a key of the body, and no value  *)
(* of the body does.                                                       *)
Quiet(ls, body) ==
    /\ \A i \in DOMAIN ls : \A k \in DOMAIN body :
          <<ls[i].key, k>> \notin Mentions /\ <<ls[i].val, k>> \notin Mentions
    /\ \A m, k \in DOMAIN body : <<body[m], k>> \notin Mentions

(* Putting a line in front of the others. *)
LEMMA InFront ==
    ASSUME NEW S, NEW z \in S, NEW s \in Seq(S)
    PROVE  LET r == <<z>> \o s
           IN  /\ r \in Seq(S) /\ DOMAIN r = 1..(Len(s) + 1) /\ r[1] = z
               /\ \A i \in DOMAIN s : i + 1 \in DOMAIN r /\ r[i + 1] = s[i]
               /\ \A i \in DOMAIN r : i = 1 \/ (i - 1 \in DOMAIN s /\ r[i] = s[i - 1])
  <1> DEFINE r == <<z>> \o s
  <1>1. <<z>> \in Seq(S) /\ Len(<<z>>) = 1 /\ <<z>>[1] = z /\ Len(s) \in Nat
    OBVIOUS
  <1>2. /\ r \in Seq(S) /\ Len(r) = 1 + Len(s)
        /\ \A i \in 1..(1 + Len(s)) : r[i] = IF i <= 1 THEN <<z>>[i] ELSE s[i - 1]
    <2>1. /\ r \in Seq(S) /\ Len(r) = Len(<<z>>) + Len(s)
          /\ \A i \in 1..(Len(<<z>>) + Len(s)) :
                r[i] = IF i <= Len(<<z>>) THEN <<z>>[i] ELSE s[i - Len(<<z>>)]
      BY <1>1, ConcatProperties
    <2> HIDE DEF r
    <2>2. QED
      BY <1>1, <2>1
  <1> HIDE DEF r
  <1>3. DOMAIN r = 1..(Len(s) + 1) /\ DOMAIN s = 1..Len(s)
    BY <1>1, <1>2
  <1>4. r[1] = z
    BY <1>1, <1>2
  <1>5. ASSUME NEW i \in DOMAIN s
        PROVE  i + 1 \in DOMAIN r /\ r[i + 1] = s[i]
    <2>1. i + 1 \in 1..(1 + Len(s)) /\ ~(i + 1 <= 1) /\ i + 1 - 1 = i
      BY <1>1, <1>3
    <2>2. QED
      BY <1>2, <1>3, <2>1
  <1>6. ASSUME NEW i \in DOMAIN r, i # 1
        PROVE  i - 1 \in DOMAIN s /\ r[i] = s[i - 1]
    <2>1. i \in 1..(1 + Len(s)) /\ ~(i <= 1) /\ i - 1 \in 1..Len(s)
      BY <1>1, <1>3, <1>6
    <2>2. QED
      BY <1>2, <1>3, <2>1
  <1>7. QED
    BY <1>2, <1>3, <1>4, <1>5, <1>6 DEF r

(* The line that is edited: the first hit, or a new one in front.          *)
NewVal(n, k, v) == IF n = k \/ <<n, k>> \in Mentions THEN v ELSE Garbled
IsEdited(r, ls, k, v) ==
    \/ /\ \A i \in DOMAIN ls : ls[i].key # k
       /\ r = <<[key |-> k, val |-> v]>> \o ls
    \/ \E i \in DOMAIN ls :
          /\ i \in Hits(ls, k)
          /\ r = [ls EXCEPT ![i].val = NewVal(ls[i].key, k, v)]

LEMMA EditedLines ==
    ASSUME NEW ls \in Seq(LineSet), NEW k \in Keys, NEW v \in Values
    PROVE  IsEdited(EditLine(ls, k, v), ls, k, v)
  <1> DEFINE S == Hits(ls, k)
             i == Min(S)
  <1>1. S \subseteq Nat /\ S \subseteq DOMAIN ls
    BY DEF Hits
  <1>2. \A m \in DOMAIN ls : ls[m].key = k => m \in S
    BY DEF Hits
  <1>3. EditLine(ls, k, v) = IF S = {} THEN <<[key |-> k, val |-> v]>> \o ls
                             ELSE IF ls[i].key = k \/ <<ls[i].key, k>> \in Mentions
                                  THEN [ls EXCEPT ![i].val = v]
                             ELSE [ls EXCEPT ![i].val = Garbled]
    BY DEF EditLine
  <1> HIDE DEF S
  <1>4. S # {} => i \in S
    BY <1>1, LeastOf
  <1> HIDE DEF i
  <1>5. CASE S = {}
    BY <1>2, <1>3, <1>5 DEF IsEdited
  <1>6. CASE S # {}
    <2>1. i \in DOMAIN ls /\ i \in Hits(ls, k)
      BY <1>1, <1>4, <1>6 DEF S
    <2>2. EditLine(ls, k, v) = [ls EXCEPT ![i].val = NewVal(ls[i].key, k, v)]
      BY <1>3, <1>6 DEF NewVal
    <2>3. QED
      BY <2>1, <2>2 DEF IsEdited
  <1>7. QED
    BY <1>5, <1>6

(* Editing a key leaves every other key as it is.  When the section can be *)
(* read, has a line for each key at most, and nothing mentions a key, the  *)
(* key has the value of the body afterwards.                               *)
KeyEdited(c, d, k, body) ==
    /\ d \in Confs /\ d.ai = c.ai
    /\ \A m \in Keys : Has(c, m) => Has(d, m)
    /\ OneLineEach(c.lines) => OneLineEach(d.lines)
    /\ c.ai /\ OneLineEach(c.lines) /\ Readable(c.lines) /\ Quiet(c.lines, body) =>
          /\ Readable(d.lines) /\ Quiet(d.lines, body)
          /\ k \in DOMAIN body => FileValue(d, k) = body[k]
          /\ \A m \in Keys : m # k \/ k \notin DOMAIN body => FileValue(d, m) = FileValue(c, m)

LEMMA EditOne ==
    ASSUME NEW c \in Confs, NEW ks \in SUBSET Keys, NEW body \in [ks -> Values], NEW k \in Keys
    PROVE  KeyEdited(c, EditKey(c, body, k), k, body)
  <1> DEFINE d == EditKey(c, body, k)
             ls == c.lines
             Good(e) == c.ai /\ OneLineEach(ls) /\ Readable(ls) /\ Quiet(ls, body) =>
                           /\ Readable(e.lines) /\ Quiet(e.lines, body)
                           /\ k \in ks => FileValue(e, k) = body[k]
                           /\ \A m \in Keys :
                                 m # k \/ k \notin ks => FileValue(e, m) = FileValue(c, m)
  <1>1. /\ ls \in Seq(LineSet) /\ DOMAIN body = ks
        /\ DOMAIN ls = 1..Len(ls) /\ Len(ls) \in Nat
    BY DEF Confs, Lines, LineSet
  <1>2. CASE ~(c.ai /\ k \in ks)
    <2>1. d = c
      BY <1>1, <1>2 DEF EditKey
    <2>2. QED
      BY <1>1, <1>2, <2>1 DEF KeyEdited
  <1>3. CASE c.ai /\ k \in ks
    <2> DEFINE v == body[k]
               r == EditLine(ls, k, v)
    <2>1. d = [c EXCEPT !.lines = r]
      BY <1>1, <1>3 DEF EditKey
    <2>2. v \in Values
      BY <1>3
    <2>3. ASSUME r \in Seq(LineSet),
                 \A m \in Keys : (\E i \in DOMAIN ls : ls[i].key = m)
                                    => (\E i \in DOMAIN r : r[i].key = m),
                 OneLineEach(ls) => OneLineEach(r),
                 OneLineEach(ls) /\ Readable(ls) /\ Quiet(ls, body) =>
                    /\ Readable(r) /\ Quiet(r, body)
                    /\ \E i \in DOMAIN r : r[i].key = k /\ r[i].val = v
                    /\ \A i \in DOMAIN r : r[i].key # k =>
                          \E m \in DOMAIN ls : ls[m] = r[i]
          PROVE  /\ d \in Confs /\ d.ai = c.ai
                 /\ \A m \in Keys : Has(c, m) => Has(d, m)
                 /\ OneLineEach(c.lines) => OneLineEach(d.lines)
                 /\ Good(d)
      <3> HIDE DEF r, v
      <3>1. d \in Confs /\ d.ai = c.ai /\ d.lines = r
        BY <2>1, <2>3 DEF Confs, Lines, LineSet
      <3> HIDE DEF d
      <3>2. \A m \in Keys : Has(c, m) => Has(d, m)
        BY <2>3, <3>1 DEF Has
      <3>3. ASSUME OneLineEach(ls), Readable(ls), Quiet(ls, body)
            PROVE  /\ Readable(r) /\ Quiet(r, body)
                   /\ FileValue(d, k) = v
                   /\ \A m \in Keys : m # k => FileValue(d, m) = FileValue(c, m)
        <4>1. /\ OneLineEach(r) /\ Readable(r) /\ Quiet(r, body)
              /\ \E i \in DOMAIN r : r[i].key = k /\ r[i].val = v
              /\ \A i \in DOMAIN r : r[i].key # k => \E m \in DOMAIN ls : ls[m] = r[i]
          BY <2>3, <3>3
        <4>2. \A m \in Keys : \A i \in DOMAIN r : r[i].key = m => FileValue(d, m) = r[i].val
          BY <1>3, <3>1, <4>1, FileValueIs, KeysAreNames
        <4>3. \A m \in Keys : \A i \in DOMAIN ls : ls[i].key = m => FileValue(c, m) = ls[i].val
          BY <1>3, <3>3, FileValueIs, KeysAreNames
        <4>4. FileValue(d, k) = v
          BY <4>1, <4>2
        <4>5. ASSUME NEW m \in Keys, m # k
              PROVE  FileValue(d, m) = FileValue(c, m)
          <5>1. CASE Has(d, m)
            <6>1. PICK i \in DOMAIN r : r[i].key = m
              BY <3>1, <5>1 DEF Has
            <6>2. PICK n \in DOMAIN ls : ls[n] = r[i]
              BY <4>1, <4>5, <6>1
            <6>3. QED
              BY <4>2, <4>3, <6>1, <6>2
          <5>2. CASE ~Has(d, m)
            <6>1. FileValue(d, m) = Unset
              BY <3>1, <5>2, FileValueIs, KeysAreNames
            <6>2. FileValue(c, m) = Unset
              BY <3>2, <5>2, FileValueIs, KeysAreNames
            <6>3. QED
              BY <6>1, <6>2
          <5>3. QED
            BY <5>1, <5>2
        <4>6. QED
          BY <4>1, <4>4, <4>5
      <3>4. QED
        BY <1>3, <2>3, <3>1, <3>2, <3>3 DEF v
    <2>4. ASSUME /\ \A i \in DOMAIN ls : ls[i].key # k
                 /\ r = <<[key |-> k, val |-> v]>> \o ls
          PROVE  /\ d \in Confs /\ d.ai = c.ai
                 /\ \A m \in Keys : Has(c, m) => Has(d, m)
                 /\ OneLineEach(c.lines) => OneLineEach(d.lines)
                 /\ Good(d)
      <3> DEFINE z == [key |-> k, val |-> v]
      <3>1. z \in LineSet /\ z.key = k /\ z.val = v
        BY <2>2, KeysAreNames DEF LineSet
      <3> HIDE DEF z
      <3>2. r = <<z>> \o ls
        BY <2>4 DEF z
      <3>3. /\ r \in Seq(LineSet) /\ DOMAIN r = 1..(Len(ls) + 1) /\ r[1] = z
            /\ \A i \in DOMAIN ls : i + 1 \in DOMAIN r /\ r[i + 1] = ls[i]
            /\ \A i \in DOMAIN r : i = 1 \/ (i - 1 \in DOMAIN ls /\ r[i] = ls[i - 1])
        BY <1>1, <3>1, <3>2, InFront
      <3>4. 1 \in DOMAIN r
        BY <1>1, <3>3
      <3> HIDE DEF r
      <3>5. \A m \in Keys : (\E i \in DOMAIN ls : ls[i].key = m)
                                 => (\E i \in DOMAIN r : r[i].key = m)
        BY <3>3
      <3>6. OneLineEach(ls) => OneLineEach(r)
        <4>1. ASSUME OneLineEach(ls), NEW m \in DOMAIN r, NEW n \in DOMAIN r, r[m].key = r[n].key
              PROVE  m = n
          <5>1. CASE m = 1 \/ n = 1
            BY <2>4, <3>1, <3>3, <4>1, <5>1
          <5>2. CASE m # 1 /\ n # 1
            <6>1. m - 1 = n - 1
              BY <3>3, <4>1, <5>2 DEF OneLineEach
            <6>2. m \in Int /\ n \in Int
              BY <3>3
            <6>3. QED
              BY <6>1, <6>2
          <5>3. QED
            BY <5>1, <5>2
        <4>2. QED
          BY <4>1 DEF OneLineEach
      <3>7. OneLineEach(ls) /\ Readable(ls) /\ Quiet(ls, body) =>
                    /\ Readable(r) /\ Quiet(r, body)
                    /\ \E i \in DOMAIN r : r[i].key = k /\ r[i].val = v
                    /\ \A i \in DOMAIN r : r[i].key # k =>
                          \E m \in DOMAIN ls : ls[m] = r[i]
        <4>1. v # Garbled
          BY <2>2, ConfigAssumption
        <4>2. Readable(ls) => Readable(r)
          BY <3>1, <3>3, <4>1 DEF Readable
        <4>3. Quiet(ls, body) => Quiet(r, body)
          <5>1. \A m : <<k, m>> \notin Mentions
            BY ConfigAssumption
          <5>2. ASSUME Quiet(ls, body), NEW n \in DOMAIN r, NEW m \in DOMAIN body
                PROVE  <<r[n].key, m>> \notin Mentions /\ <<r[n].val, m>> \notin Mentions
            <6>1. CASE n = 1
              BY <1>1, <1>3, <3>1, <3>3, <5>1, <5>2, <6>1 DEF Quiet, v
            <6>2. CASE n # 1
              BY <3>3, <5>2, <6>2 DEF Quiet
            <6>3. QED
              BY <6>1, <6>2
          <5>3. QED
            BY <5>2 DEF Quiet
        <4>4. QED
          BY <3>1, <3>3, <3>4, <4>2, <4>3
      <3>8. QED
        BY <2>3, <3>3, <3>5, <3>6, <3>7
    <2>5. ASSUME NEW i \in DOMAIN ls, i \in Hits(ls, k),
                 r = [ls EXCEPT ![i].val = NewVal(ls[i].key, k, v)]
          PROVE  /\ d \in Confs /\ d.ai = c.ai
                 /\ \A m \in Keys : Has(c, m) => Has(d, m)
                 /\ OneLineEach(c.lines) => OneLineEach(d.lines)
                 /\ Good(d)
      <3> DEFINE w == NewVal(ls[i].key, k, v)
                 z == [ls[i] EXCEPT !.val = w]
      <3>1. ls[i] \in LineSet /\ \A m \in DOMAIN ls : ls[m] \in LineSet
        BY <1>1
      <3>2. z \in LineSet /\ z.key = ls[i].key /\ z.val = w
        BY <2>2, <3>1 DEF LineSet, NewVal
      <3>3. r = [ls EXCEPT ![i] = z]
        BY <1>1, <2>5
      <3> HIDE DEF z
      <3>4. /\ r \in Seq(LineSet) /\ DOMAIN r = DOMAIN ls /\ r[i] = z
            /\ \A m \in DOMAIN ls : m # i => r[m] = ls[m]
        BY <1>1, <2>5, <3>2, <3>3
      <3> HIDE DEF r, w
      <3>5. \A m \in DOMAIN ls : r[m].key = ls[m].key
        BY <3>2, <3>4
      <3>6. \A m \in Keys : (\E n \in DOMAIN ls : ls[n].key = m)
                                 => (\E n \in DOMAIN r : r[n].key = m)
        BY <3>4, <3>5
      <3>7. OneLineEach(ls) => OneLineEach(r)
        BY <3>4, <3>5 DEF OneLineEach
      <3>8. ASSUME Readable(ls), Quiet(ls, body)
            PROVE  /\ Readable(r) /\ Quiet(r, body)
                   /\ r[i].key = k /\ r[i].val = v
        <4>1. ls[i].key = k
          BY <1>1, <1>3, <2>5, <3>8 DEF Hits, Readable, Quiet
        <4>2. w = v /\ v # Garbled
          BY <2>2, <4>1, ConfigAssumption DEF w, NewVal
        <4>3. \A m \in DOMAIN r : r[m].val = v \/ r[m].val = ls[m].val
          BY <3>2, <3>4, <4>2
        <4>4. Readable(r)
          BY <3>4, <3>8, <4>2, <4>3 DEF Readable
        <4>5. Quiet(r, body)
          <5>1. ASSUME NEW n \in DOMAIN r, NEW m \in DOMAIN body
                PROVE  <<r[n].key, m>> \notin Mentions /\ <<r[n].val, m>> \notin Mentions
            BY <1>1, <1>3, <3>4, <3>5, <3>8, <4>3 DEF Quiet, v
          <5>2. QED
            BY <3>8, <5>1 DEF Quiet
        <4>6. QED
          BY <3>2, <3>4, <4>1, <4>2, <4>4, <4>5
      <3>9. OneLineEach(ls) /\ Readable(ls) /\ Quiet(ls, body) =>
                    /\ Readable(r) /\ Quiet(r, body)
                    /\ \E n \in DOMAIN r : r[n].key = k /\ r[n].val = v
                    /\ \A n \in DOMAIN r : r[n].key # k =>
                          \E m \in DOMAIN ls : ls[m] = r[n]
        BY <3>4, <3>8
      <3>10. QED
        BY <2>3, <3>4, <3>6, <3>7, <3>9
    <2>6. \/ /\ \A i \in DOMAIN ls : ls[i].key # k
             /\ r = <<[key |-> k, val |-> v]>> \o ls
          \/ \E i \in DOMAIN ls :
                /\ i \in Hits(ls, k)
                /\ r = [ls EXCEPT ![i].val = NewVal(ls[i].key, k, v)]
      <3>1. IsEdited(r, ls, k, v)
        BY <1>1, <2>2, EditedLines
      <3> HIDE DEF r, ls, v
      <3>2. QED
        BY <3>1 DEF IsEdited
    <2>7. /\ d \in Confs /\ d.ai = c.ai
          /\ \A m \in Keys : Has(c, m) => Has(d, m)
          /\ OneLineEach(c.lines) => OneLineEach(d.lines)
          /\ Good(d)
      <3> HIDE DEF r, v, d, Good
      <3>1. QED
        BY <2>4, <2>5, <2>6
    <2>8. QED
      BY <1>1, <2>7 DEF KeyEdited
  <1>4. QED
    BY <1>2, <1>3

(* The whole edit, key by key.                                             *)
AllEdited(c, d, body) ==
    /\ d \in Confs /\ d.ai = c.ai
    /\ \A m \in Keys : Has(c, m) => Has(d, m)
    /\ OneLineEach(c.lines) => OneLineEach(d.lines)
    /\ c.ai /\ OneLineEach(c.lines) /\ Readable(c.lines) /\ Quiet(c.lines, body) =>
          /\ Readable(d.lines)
          /\ \A m \in Keys : FileValue(d, m) = IF m \in DOMAIN body THEN body[m]
                                               ELSE FileValue(c, m)

LEMMA EditAll ==
    ASSUME NEW c \in Confs, NEW body \in Bodies
    PROVE  AllEdited(c, Edited(c, body), body)
  <1>1. PICK ks \in SUBSET Keys : body \in [ks -> Values]
    BY ConfigAssumption
  <1> DEFINE c1 == EditKey(c, body, "api_key")
             c2 == EditKey(c1, body, "model")
             c3 == EditKey(c2, body, "api_base")
             Fine(e) == e.ai /\ OneLineEach(e.lines) /\ Readable(e.lines) /\ Quiet(e.lines, body)
  <1>2. "api_key" \in Keys /\ "model" \in Keys /\ "api_base" \in Keys
    BY DEF Keys
  <1>3. ASSUME NEW e \in Confs, NEW k \in Keys
        PROVE  KeyEdited(e, EditKey(e, body, k), k, body)
    BY <1>1, <1>3, EditOne
  <1>4. KeyEdited(c, c1, "api_key", body) /\ c1 \in Confs
    BY <1>2, <1>3 DEF KeyEdited
  <1> HIDE DEF c1
  <1>5. KeyEdited(c1, c2, "model", body) /\ c2 \in Confs
    BY <1>2, <1>3, <1>4 DEF KeyEdited
  <1> HIDE DEF c2
  <1>6. KeyEdited(c2, c3, "api_base", body) /\ c3 \in Confs
    BY <1>2, <1>3, <1>5 DEF KeyEdited
  <1> HIDE DEF c3
  <1>7. Edited(c, body) = c3
    BY DEF Edited, c1, c2, c3
  <1>8. Fine(c) => Fine(c1)
    BY <1>4 DEF KeyEdited
  <1>9. Fine(c1) => Fine(c2)
    BY <1>5 DEF KeyEdited
  <1>10. ASSUME Fine(c), NEW m \in Keys
         PROVE  FileValue(c3, m) = IF m \in DOMAIN body THEN body[m] ELSE FileValue(c, m)
    <2>1. \A n \in Keys : /\ FileValue(c1, n) = IF n = "api_key" /\ n \in DOMAIN body THEN body[n]
                                                ELSE FileValue(c, n)
                          /\ FileValue(c2, n) = IF n = "model" /\ n \in DOMAIN body THEN body[n]
                                                ELSE FileValue(c1, n)
                          /\ FileValue(c3, n) = IF n = "api_base" /\ n \in DOMAIN body THEN body[n]
                                                ELSE FileValue(c2, n)
      BY <1>4, <1>5, <1>6, <1>8, <1>9, <1>10 DEF KeyEdited
    <2>2. QED
      BY <2>1 DEF Keys
  <1>11. Fine(c) => Readable(c3.lines)
    BY <1>6, <1>8, <1>9 DEF KeyEdited
  <1>12. c3 \in Confs /\ c3.ai = c.ai
    BY <1>4, <1>5, <1>6 DEF KeyEdited
  <1>13. \A m \in Keys : Has(c, m) => Has(c3, m)
    BY <1>4, <1>5, <1>6 DEF KeyEdited
  <1>14. OneLineEach(c.lines) => OneLineEach(c3.lines)
    BY <1>4, <1>5, <1>6 DEF KeyEdited
  <1>15. QED
    BY <1>7, <1>10, <1>11, <1>12, <1>13, <1>14 DEF AllEdited

InSeq(k, s) == \E i \in DOMAIN s : s[i] = k

LEMMA InConcat ==
    ASSUME NEW S, NEW s \in Seq(S), NEW t \in Seq(S), NEW k
    PROVE  InSeq(k, s \o t) <=> InSeq(k, s) \/ InSeq(k, t)
  <1> DEFINE r == s \o t
  <1>1. Len(s) \in Nat /\ Len(t) \in Nat /\ DOMAIN s = 1..Len(s) /\ DOMAIN t = 1..Len(t)
    OBVIOUS
  <1>2. /\ r \in Seq(S) /\ Len(r) = Len(s) + Len(t)
        /\ \A i \in 1..(Len(s) + Len(t)) : r[i] = IF i <= Len(s) THEN s[i] ELSE t[i - Len(s)]
    BY ConcatProperties
  <1> HIDE DEF r
  <1>3. DOMAIN r = 1..(Len(s) + Len(t))
    BY <1>2
  <1>4. ASSUME NEW i \in DOMAIN r, r[i] = k
        PROVE  InSeq(k, s) \/ InSeq(k, t)
    <2>1. CASE i <= Len(s)
      <3>1. i \in DOMAIN s /\ r[i] = s[i]
        BY <1>1, <1>2, <1>3, <2>1
      <3>2. QED
        BY <1>4, <3>1 DEF InSeq
    <2>2. CASE ~(i <= Len(s))
      <3>1. i - Len(s) \in DOMAIN t /\ r[i] = t[i - Len(s)]
        BY <1>1, <1>2, <1>3, <2>2
      <3>2. QED
        BY <1>4, <3>1 DEF InSeq
    <2>3. QED
      BY <2>1, <2>2
  <1>5. ASSUME NEW i \in DOMAIN s, s[i] = k
        PROVE  InSeq(k, r)
    <2>1. i \in DOMAIN r /\ r[i] = s[i]
      BY <1>1, <1>2, <1>3
    <2>2. QED
      BY <1>5, <2>1 DEF InSeq
  <1>6. ASSUME NEW i \in DOMAIN t, t[i] = k
        PROVE  InSeq(k, r)
    <2>1. /\ i + Len(s) \in 1..(Len(s) + Len(t)) /\ ~(i + Len(s) <= Len(s))
          /\ i + Len(s) - Len(s) = i
      BY <1>1
    <2>2. i + Len(s) \in DOMAIN r /\ r[i + Len(s)] = t[i]
      BY <1>2, <1>3, <2>1
    <2>3. QED
      BY <1>6, <2>2 DEF InSeq
  <1>7. InSeq(k, r) <=> InSeq(k, s) \/ InSeq(k, t)
    BY <1>4, <1>5, <1>6 DEF InSeq
  <1>8. QED
    BY <1>7 DEF r

LEMMA KeysListed ==
    ASSUME NEW body \in Bodies
    PROVE  KeysOf(body) \in Seq(Keys) /\ \A k : InSeq(k, KeysOf(body)) <=> k \in DOMAIN body
  <1>1. ASSUME NEW k \in Keys
        PROVE  OnlyIf(k, body) \in Seq(Keys)
               /\ \A m : InSeq(m, OnlyIf(k, body)) <=> m = k /\ k \in DOMAIN body
    <2>1. <<>> \in Seq(Keys) /\ <<k>> \in Seq(Keys)
      OBVIOUS
    <2>2. \A m : ~InSeq(m, <<>>)
      BY DEF InSeq
    <2>3. \A m : InSeq(m, <<k>>) <=> m = k
      BY DEF InSeq
    <2>4. QED
      BY <2>1, <2>2, <2>3 DEF OnlyIf
  <1>2. "api_key" \in Keys /\ "model" \in Keys /\ "api_base" \in Keys
    BY DEF Keys
  <1> DEFINE a == OnlyIf("api_key", body)
             b == OnlyIf("model", body)
             d == OnlyIf("api_base", body)
  <1>3. a \in Seq(Keys) /\ b \in Seq(Keys) /\ d \in Seq(Keys)
    BY <1>1, <1>2
  <1>4. \A m : /\ InSeq(m, a) <=> m = "api_key" /\ "api_key" \in DOMAIN body
               /\ InSeq(m, b) <=> m = "model" /\ "model" \in DOMAIN body
               /\ InSeq(m, d) <=> m = "api_base" /\ "api_base" \in DOMAIN body
    BY <1>1, <1>2
  <1> HIDE DEF a, b, d
  <1>5. a \o b \in Seq(Keys) /\ (a \o b) \o d \in Seq(Keys)
    BY <1>3
  <1>6. \A m : InSeq(m, (a \o b) \o d) <=> InSeq(m, a) \/ InSeq(m, b) \/ InSeq(m, d)
    BY <1>3, <1>5, InConcat
  <1>7. DOMAIN body \subseteq Keys
    BY ConfigAssumption
  <1>8. \A m : InSeq(m, (a \o b) \o d) <=> m \in DOMAIN body
    BY <1>4, <1>6, <1>7 DEF Keys
  <1>9. KeysOf(body) = (a \o b) \o d
    BY DEF KeysOf, a, b, d
  <1>10. QED
    BY <1>5, <1>8, <1>9

LEMMA HeadOrTail ==
    ASSUME NEW S, NEW s \in Seq(S), s # <<>>
    PROVE  /\ Head(s) \in S /\ Tail(s) \in Seq(S) /\ InSeq(Head(s), s)
           /\ \A k : InSeq(k, s) <=> k = Head(s) \/ InSeq(k, Tail(s))
  <1>1. /\ Len(s) \in Nat /\ Len(s) >= 1 /\ DOMAIN s = 1..Len(s)
        /\ Head(s) = s[1] /\ Tail(s) \in Seq(S) /\ Len(Tail(s)) = Len(s) - 1
        /\ DOMAIN Tail(s) = 1..(Len(s) - 1)
        /\ \A i \in 1..(Len(s) - 1) : Tail(s)[i] = s[i + 1]
    BY EmptySeq
  <1>2. 1 \in DOMAIN s /\ s[1] \in S
    BY <1>1
  <1>3. ASSUME NEW i \in DOMAIN s, i # 1
        PROVE  InSeq(s[i], Tail(s))
    <2>1. i - 1 \in 1..(Len(s) - 1) /\ i - 1 + 1 = i
      BY <1>1, <1>3
    <2>2. QED
      BY <1>1, <2>1 DEF InSeq
  <1>4. ASSUME NEW i \in DOMAIN Tail(s)
        PROVE  InSeq(Tail(s)[i], s)
    <2>1. i + 1 \in DOMAIN s
      BY <1>1
    <2>2. QED
      BY <1>1, <2>1 DEF InSeq
  <1>5. QED
    BY <1>1, <1>2, <1>3, <1>4 DEF InSeq

(* The POSTs: at most one at a time, or an overlap is on record; the one   *)
(* that has opened the file has emptied it.                                *)
PostJobs == [pc : {"idle", "read", "set"}, body : Bodies \union {<<>>}, text : Confs,
             open : BOOLEAN, todo : Seq(Keys)]

PostFits(j) ==
    /\ j \in PostJobs
    /\ j.pc # "idle" => j.body \in Bodies /\ \A k : InSeq(k, j.todo) => k \in DOMAIN j.body
    /\ j.pc = "read" => \A k \in DOMAIN j.body : InSeq(k, j.todo)
    /\ j.open => j.pc = "set"

AlonePosts ==
    "overlap" \notin excuse =>
        /\ \A p, q \in Posters : post[p].pc # "idle" /\ post[q].pc # "idle" => p = q
        /\ OneLineEach(conf.lines)
        /\ \A p \in Posters : post[p].pc # "idle" => OneLineEach(post[p].text.lines)
        /\ \A p \in Posters : post[p].open => conf = Empty

(* No key is lost: the file has the stored ones unless somebody has opened *)
(* it, and every text that may be written has them.                        *)
KeysKept ==
    {"overlap", "unwritten", "crash"} \intersect excuse = {} =>
        /\ (\A p \in Posters : ~post[p].open) => \A k \in stored : Has(conf, k)
        /\ \A p \in Posters : post[p].pc # "idle" => \A k \in stored : Has(post[p].text, k)

NothingGarbled ==
    {"overlap", "mention"} \intersect excuse = {} =>
        /\ Readable(conf.lines)
        /\ \A p \in Posters : post[p].pc # "idle" => Readable(post[p].text.lines)

(* A POST on its way: its text holds what is going to be saved last, and   *)
(* the gateway has it but for the keys that are still to be set and those  *)
(* that a task has set since.                                              *)
NewValue(j, k, s) == IF k \in DOMAIN j.body THEN j.body[k] ELSE s[k]
OnItsWay(j, s, g, tk) ==
    /\ j.text.ai /\ OneLineEach(j.text.lines) /\ Readable(j.text.lines)
    /\ j.pc = "set" => j.open
    /\ \A k \in Keys : NewValue(j, k, s) # Unset =>
          /\ FileValue(j.text, k) = NewValue(j, k, s)
          /\ ~InSeq(k, j.todo) /\ k \notin tk => g[k] = Suffixed(k, NewValue(j, k, s))

ConfigShapes ==
    /\ conf \in Confs
    /\ gw \in [Keys -> GwValues]
    /\ post \in [Posters -> PostJobs] /\ \A p \in Posters : PostFits(post[p])
    /\ task \in [key : GwValues, todo : Seq(Keys)]
    /\ chats \in 0..MaxChats /\ tasked \subseteq Keys
    /\ sent \in [Keys -> Values \union {Unset}]
    /\ stored \subseteq Keys /\ posts \in 0..MaxPosts
    /\ excuse \subseteq {"overlap", "unopened", "unwritten", "nosection", "mention", "crash"}

ConfigInv ==
    /\ ConfigShapes
    /\ AlonePosts /\ KeysKept /\ NothingGarbled
    /\ \A p \in Posters :
          post[p].pc # "idle" /\ excuse \subseteq {"crash"} => OnItsWay(post[p], sent, gw, tasked)
    /\ SavedIsRunning

LEMMA EmptyConf == Empty \in Confs /\ Empty.lines = <<>> /\ ~Empty.ai
  <1>1. <<>> \in Lines
    BY DEF Lines
  <1>2. QED
    BY <1>1 DEF Empty, Confs

LEMMA IdlePosts ==
    /\ IdlePost \in PostJobs /\ PostFits(IdlePost) /\ IdlePost.pc = "idle" /\ ~IdlePost.open
  <1>1. <<>> \in Seq(Keys)
    OBVIOUS
  <1>2. IdlePost \in PostJobs /\ IdlePost.pc = "idle" /\ ~IdlePost.open
    BY <1>1, EmptyConf DEF IdlePost, PostJobs
  <1>3. QED
    BY <1>2 DEF PostFits

LEMMA NoTaskTyped == NoTask \in [key : GwValues, todo : Seq(Keys)]
  <1>1. <<>> \in Seq(Keys) /\ Unset \in GwValues
    BY DEF GwValues
  <1>2. QED
    BY <1>1 DEF NoTask

LEMMA LoadedTyped ==
    ASSUME NEW c \in Confs
    PROVE  Loaded(c) \in [Keys -> GwValues]
  <1>1. \A k \in Keys : FileValue(c, k) \in Values \union {Garbled, Unset}
    BY FileValueIs, KeysAreNames
  <1>2. QED
    BY <1>1 DEF Loaded, GwValues

LEMMA ConfigInitially == InitConfig => ConfigInv
  <1> SUFFICES ASSUME InitConfig
               PROVE  ConfigInv
    OBVIOUS
  <1>1. conf \in Confs /\ OneLineEach(conf.lines) /\ Readable(conf.lines)
    <2>1. CASE conf \in {Missing, [Empty EXCEPT !.ai = TRUE]}
      <3>1. conf \in Confs /\ conf.lines = <<>>
        BY <2>1, EmptyConf DEF Missing, Confs
      <3>2. QED
        BY <3>1 DEF OneLineEach, Readable
    <2>2. ASSUME NEW n \in Names, NEW v \in Values,
                 conf = [Empty EXCEPT !.ai = TRUE, !.lines = <<[key |-> n, val |-> v]>>]
          PROVE  conf \in Confs /\ OneLineEach(conf.lines) /\ Readable(conf.lines)
      <3> DEFINE z == [key |-> n, val |-> v]
      <3>1. z \in LineSet /\ z.val # Garbled
        BY ConfigAssumption DEF LineSet, Names, Keys
      <3> HIDE DEF z
      <3>2. <<z>> \in Lines
        BY <3>1 DEF Lines, LineSet
      <3>3. conf \in Confs /\ conf.lines = <<z>>
        BY <2>2, <3>2, EmptyConf DEF Confs, z
      <3>4. QED
        BY <3>1, <3>3 DEF OneLineEach, Readable
    <2>3. QED
      BY <2>1, <2>2 DEF InitConfig
  <1>2. /\ gw = Loaded(conf) /\ post = [p \in Posters |-> IdlePost]
        /\ task = NoTask /\ chats = 0 /\ tasked = {}
        /\ sent = [k \in Keys |-> Unset] /\ posts = 0 /\ excuse = {}
        /\ stored = {k \in Keys : FileValue(conf, k) # Unset}
    BY DEF InitConfig
  <1>3. \A k \in stored : Has(conf, k)
    BY <1>1, <1>2, FileValueIs, KeysAreNames
  <1>4. 0 \in 0..MaxPosts /\ 0 \in 0..MaxChats
    BY ConfigAssumption
  <1>5. ConfigShapes
    BY <1>1, <1>2, <1>4, IdlePosts, NoTaskTyped, LoadedTyped DEF ConfigShapes
  <1>6. \A p \in Posters : post[p].pc = "idle" /\ ~post[p].open
    BY <1>2, IdlePosts
  <1>7. AlonePosts /\ KeysKept /\ NothingGarbled
    BY <1>1, <1>3, <1>6 DEF AlonePosts, KeysKept, NothingGarbled
  <1>8. SavedIsRunning
    BY <1>2 DEF SavedIsRunning
  <1>9. QED
    BY <1>5, <1>6, <1>7, <1>8 DEF ConfigInv

LEMMA ReadConfKeeps ==
    ASSUME ConfigInv, NEW p \in Posters, ReadConf(p)
    PROVE  ConfigInv'
  <1>1. PICK b \in Bodies :
          post' = [post EXCEPT ![p] = [pc |-> "read", body |-> b, open |-> FALSE,
                                       todo |-> KeysOf(b),
                                       text |-> Edited([conf EXCEPT !.exists = TRUE], b)]]
    BY DEF ReadConf
  <1> DEFINE c1 == [conf EXCEPT !.exists = TRUE]
             T == Edited(c1, b)
             j == [pc |-> "read", body |-> b, open |-> FALSE, todo |-> KeysOf(b), text |-> T]
  <1>2. ConfigShapes
    BY DEF ConfigInv
  <1>3. /\ c1 \in Confs /\ c1.ai = conf.ai /\ c1.lines = conf.lines
        /\ \A k : (Has(c1, k) <=> Has(conf, k)) /\ FileValue(c1, k) = FileValue(conf, k)
    BY <1>2 DEF ConfigShapes, Confs, Has, FileValue
  <1>4. AllEdited(c1, T, b)
    BY <1>3, EditAll
  <1> HIDE DEF c1, T
  <1>5. T \in Confs
    BY <1>4 DEF AllEdited
  <1>6. /\ j \in PostJobs /\ j.pc = "read" /\ j.body = b /\ j.text = T /\ ~j.open
        /\ j.todo = KeysOf(b)
    BY <1>5, KeysListed DEF PostJobs
  <1>7. post' = [post EXCEPT ![p] = j]
    BY <1>1 DEF T, c1
  <1> HIDE DEF j
  <1>8. PostFits(j)
    BY <1>6, KeysListed DEF PostFits
  <1>9. /\ post' \in [Posters -> PostJobs] /\ post'[p] = j
        /\ \A q \in Posters : q # p => post'[q] = post[q]
    BY <1>2, <1>6, <1>7 DEF ConfigShapes
  <1>10. /\ UNCHANGED <<conf, gw, task, chats, tasked, sent, stored>>
         /\ excuse' = excuse \union EditExcuse(conf, b)
                          \union (IF InProgress = {} THEN {} ELSE {"overlap"})
         /\ posts < MaxPosts /\ posts' = posts + 1
    BY <1>6, <1>9 DEF ReadConf, taskState
  <1>11. posts' \in 0..MaxPosts
    BY <1>2, <1>10, ConfigAssumption DEF ConfigShapes
  <1>12. EditExcuse(conf, b) \subseteq {"nosection", "mention"}
    BY DEF EditExcuse
  <1>13. ConfigShapes'
    <2>1. excuse' \subseteq {"overlap", "unopened", "unwritten", "nosection", "mention", "crash"}
      BY <1>2, <1>10, <1>12 DEF ConfigShapes
    <2>2. \A q \in Posters : PostFits(post'[q])
      BY <1>2, <1>8, <1>9 DEF ConfigShapes
    <2>3. QED
      BY <1>2, <1>9, <1>10, <1>11, <2>1, <2>2 DEF ConfigShapes
  <1>14. excuse \subseteq excuse'
    BY <1>10
  <1>15. "overlap" \notin excuse' =>
            \A q \in Posters : post[q].pc = "idle" /\ ~post[q].open
    <2>1. "overlap" \notin excuse' => InProgress = {}
      BY <1>10
    <2>2. QED
      BY <1>2, <2>1 DEF InProgress, ConfigShapes, PostFits
  <1>16. AlonePosts'
    <2>1. ASSUME "overlap" \notin excuse'
          PROVE  OneLineEach(conf.lines) /\ OneLineEach(j.text.lines)
      BY <1>3, <1>4, <1>6, <1>14, <2>1 DEF ConfigInv, AlonePosts, AllEdited
    <2>2. QED
      BY <1>6, <1>9, <1>10, <1>14, <1>15, <2>1 DEF ConfigInv, AlonePosts
  <1>17. KeysKept'
    <2>1. SUFFICES ASSUME {"overlap", "unwritten", "crash"} \intersect excuse' = {}
                   PROVE  /\ \A k \in stored : Has(conf, k)
                          /\ \A q \in Posters : post'[q].pc # "idle" =>
                                \A k \in stored : Has(post'[q].text, k)
      BY <1>10 DEF KeysKept
    <2>2. \A k \in stored : Has(conf, k)
      BY <1>14, <1>15, <2>1 DEF ConfigInv, KeysKept
    <2>3. \A k \in stored : Has(T, k)
      BY <1>2, <1>3, <1>4, <2>2 DEF AllEdited, ConfigShapes
    <2>4. QED
      BY <1>6, <1>9, <1>15, <2>1, <2>2, <2>3
  <1>18. NothingGarbled'
    <2>1. SUFFICES ASSUME {"overlap", "mention"} \intersect excuse' = {}
                   PROVE  Readable(conf.lines) /\ Readable(T.lines)
      BY <1>6, <1>9, <1>10, <1>15 DEF NothingGarbled
    <2>2. Readable(conf.lines) /\ OneLineEach(conf.lines)
      BY <1>14, <2>1 DEF ConfigInv, NothingGarbled, AlonePosts
    <2>3. CASE conf.ai
      <3>1. Quiet(conf.lines, b)
        BY <1>10, <2>1 DEF EditExcuse, Mentioned, Quiet
      <3>2. QED
        BY <1>3, <1>4, <2>2, <2>3, <3>1 DEF AllEdited
    <2>4. CASE ~conf.ai
      <3>1. T = c1
        BY <1>3, <2>4 DEF T, Edited, EditKey
      <3>2. QED
        BY <1>3, <2>2, <3>1
    <2>5. QED
      BY <2>3, <2>4
  <1>19. ASSUME excuse' \subseteq {"crash"}
         PROVE  OnItsWay(j, sent, gw, tasked)
    <2>1. conf.ai /\ ~Mentioned(conf, b)
      BY <1>10, <1>19 DEF EditExcuse
    <2>2. OneLineEach(conf.lines) /\ Readable(conf.lines)
      BY <1>14, <1>19 DEF ConfigInv, AlonePosts, NothingGarbled
    <2>3. Quiet(conf.lines, b)
      BY <2>1 DEF Mentioned, Quiet
    <2>4. /\ T.ai /\ OneLineEach(T.lines) /\ Readable(T.lines)
          /\ \A k \in Keys : FileValue(T, k) = IF k \in DOMAIN b THEN b[k] ELSE FileValue(conf, k)
      BY <1>3, <1>4, <2>1, <2>2, <2>3 DEF AllEdited
    <2>5. InProgress = {} /\ excuse \subseteq {"crash"}
      BY <1>10, <1>14, <1>19
    <2>6. \A k \in Keys : sent[k] # Unset =>
             /\ FileValue(conf, k) = sent[k]
             /\ k \notin tasked => gw[k] = Suffixed(k, sent[k])
      BY <2>5 DEF ConfigInv, SavedIsRunning
    <2>7. \A k \in DOMAIN b : InSeq(k, KeysOf(b))
      BY KeysListed
    <2>8. \A k \in Keys : NewValue(j, k, sent) = IF k \in DOMAIN b THEN b[k] ELSE sent[k]
      BY <1>6, <1>10 DEF NewValue
    <2>9. QED
      <3>1. ASSUME NEW k \in Keys, NewValue(j, k, sent) # Unset
            PROVE  /\ FileValue(j.text, k) = NewValue(j, k, sent)
                   /\ ~InSeq(k, j.todo) /\ k \notin tasked
                         => gw[k] = Suffixed(k, NewValue(j, k, sent))
        BY <1>6, <2>4, <2>6, <2>7, <2>8, <3>1
      <3>2. QED
        BY <1>6, <2>4, <3>1 DEF OnItsWay
  <1>20. \A q \in Posters :
            post'[q].pc # "idle" /\ excuse' \subseteq {"crash"} => OnItsWay(post'[q], sent', gw', tasked')
    <2>1. excuse' \subseteq {"crash"} => "overlap" \notin excuse'
      OBVIOUS
    <2>2. QED
      BY <1>9, <1>10, <1>15, <1>19, <2>1
  <1>21. SavedIsRunning'
    <2>1. InProgress' # {}
      BY <1>6, <1>9 DEF InProgress
    <2>2. QED
      BY <2>1 DEF SavedIsRunning
  <1>22. QED
    BY <1>13, <1>16, <1>17, <1>18, <1>20, <1>21 DEF ConfigInv

LEMMA TruncateKeeps ==
    ASSUME ConfigInv, NEW p \in Posters, Truncate(p)
    PROVE  ConfigInv'
  <1> DEFINE j == post'[p]
  <1>1. ConfigShapes /\ AlonePosts /\ KeysKept /\ NothingGarbled
    BY DEF ConfigInv
  <1>2. post[p] \in PostJobs /\ PostFits(post[p]) /\ post[p].pc = "read" /\ ~post[p].open
    BY <1>1 DEF ConfigShapes, Truncate, PostFits
  <1>3. /\ UNCHANGED <<gw, task, chats, tasked, sent, stored, posts>>
        /\ \/ /\ conf' = Empty /\ UNCHANGED excuse
              /\ post' = [post EXCEPT ![p].pc = "set", ![p].open = TRUE]
           \/ /\ UNCHANGED conf /\ excuse' = excuse \union {"unopened"}
              /\ post' = [post EXCEPT ![p].pc = "set"]
    BY DEF Truncate, taskState
  <1>4. /\ DOMAIN post' = Posters /\ \A q \in Posters : q # p => post'[q] = post[q]
        /\ j \in PostJobs /\ j.pc = "set"
        /\ j.body = post[p].body /\ j.text = post[p].text /\ j.todo = post[p].todo
        /\ post' = [q \in Posters |-> post'[q]]
    <2>1. post \in [Posters -> PostJobs]
      BY <1>1 DEF ConfigShapes
    <2>2. CASE post' = [post EXCEPT ![p].pc = "set", ![p].open = TRUE]
      BY <1>2, <2>1, <2>2 DEF PostJobs
    <2>3. CASE post' = [post EXCEPT ![p].pc = "set"]
      BY <1>2, <2>1, <2>3 DEF PostJobs
    <2>4. QED
      BY <1>3, <2>2, <2>3
  <1>5. /\ excuse \subseteq excuse'
        /\ excuse' \subseteq {"overlap", "unopened", "unwritten", "nosection", "mention", "crash"}
        /\ conf' \in Confs /\ (conf' = conf \/ conf' = Empty)
    BY <1>1, <1>3, EmptyConf DEF ConfigShapes
  <1>6. \/ conf' = Empty /\ excuse' = excuse /\ j.open
        \/ conf' = conf /\ "unopened" \in excuse' /\ ~j.open
    <2>1. post \in [Posters -> PostJobs]
      BY <1>1 DEF ConfigShapes
    <2>2. CASE post' = [post EXCEPT ![p].pc = "set", ![p].open = TRUE]
      <3>1. j.open
        BY <1>2, <2>1, <2>2 DEF PostJobs
      <3>2. QED
        BY <1>2, <1>3, <2>1, <2>2, <3>1 DEF PostJobs
    <2>3. CASE post' = [post EXCEPT ![p].pc = "set"]
      <3>1. j.open = post[p].open /\ ~post[p].open
        BY <1>2, <2>1, <2>3 DEF PostJobs
      <3>2. post' # [post EXCEPT ![p].pc = "set", ![p].open = TRUE]
        BY <2>1, <3>1 DEF PostJobs
      <3>3. QED
        BY <1>3, <3>1, <3>2
    <2>4. QED
      BY <1>3, <2>2, <2>3
  <1> HIDE DEF j
  <1>7. PostFits(j)
    BY <1>2, <1>4 DEF PostFits
  <1>8. \A q \in Posters : post'[q] \in PostJobs /\ PostFits(post'[q])
    BY <1>1, <1>4, <1>7 DEF ConfigShapes, j
  <1>9. ConfigShapes'
    BY <1>1, <1>3, <1>4, <1>5, <1>8 DEF ConfigShapes
  <1>10. OneLineEach(Empty.lines) /\ Readable(Empty.lines)
    BY EmptyConf DEF OneLineEach, Readable
  <1>11. \A q \in Posters : post'[q].pc # "idle" => post[q].pc # "idle" /\ post'[q].text = post[q].text
    BY <1>2, <1>4 DEF j
  <1>12. AlonePosts'
    <2>1. SUFFICES ASSUME "overlap" \notin excuse'
                   PROVE  /\ \A q, r \in Posters :
                                post'[q].pc # "idle" /\ post'[r].pc # "idle" => q = r
                          /\ OneLineEach(conf'.lines)
                          /\ \A q \in Posters : post'[q].pc # "idle" => OneLineEach(post'[q].text.lines)
                          /\ \A q \in Posters : post'[q].open => conf' = Empty
      BY DEF AlonePosts
    <2>2. "overlap" \notin excuse
      BY <1>5, <2>1
    <2>3. \A q \in Posters : post'[q].open => conf' = Empty
      BY <1>1, <1>4, <1>5, <1>6, <2>2 DEF AlonePosts, j
    <2>4. QED
      BY <1>1, <1>5, <1>10, <1>11, <2>2, <2>3 DEF AlonePosts
  <1>13. KeysKept'
    <2>1. SUFFICES ASSUME {"overlap", "unwritten", "crash"} \intersect excuse' = {}
                   PROVE  /\ (\A q \in Posters : ~post'[q].open) => \A k \in stored : Has(conf', k)
                          /\ \A q \in Posters : post'[q].pc # "idle" =>
                                \A k \in stored : Has(post'[q].text, k)
      BY <1>3 DEF KeysKept
    <2>2. {"overlap", "unwritten", "crash"} \intersect excuse = {}
      BY <1>5, <2>1
    <2>3. (\A q \in Posters : ~post'[q].open) =>
             conf' = conf /\ \A q \in Posters : ~post[q].open
      BY <1>2, <1>4, <1>6 DEF j
    <2>4. QED
      BY <1>1, <1>11, <2>2, <2>3 DEF KeysKept
  <1>14. NothingGarbled'
    BY <1>1, <1>5, <1>10, <1>11 DEF NothingGarbled
  <1>15. \A q \in Posters :
            post'[q].pc # "idle" /\ excuse' \subseteq {"crash"} => OnItsWay(post'[q], sent', gw', tasked')
    <2>1. SUFFICES ASSUME NEW q \in Posters, post'[q].pc # "idle", excuse' \subseteq {"crash"}
                   PROVE  OnItsWay(post'[q], sent', gw', tasked')
      OBVIOUS
    <2>2. OnItsWay(post[p], sent, gw, tasked) /\ OnItsWay(post[q], sent, gw, tasked)
      BY <1>2, <1>5, <1>11, <2>1 DEF ConfigInv
    <2>3. OnItsWay(j, sent', gw', tasked')
      BY <1>3, <1>4, <1>6, <2>1, <2>2 DEF OnItsWay, NewValue
    <2>4. QED
      BY <1>3, <1>4, <2>2, <2>3 DEF j
  <1>16. SavedIsRunning'
    <2>1. InProgress' # {}
      BY <1>4 DEF InProgress, j
    <2>2. QED
      BY <2>1 DEF SavedIsRunning
  <1>17. QED
    BY <1>9, <1>12, <1>13, <1>14, <1>15, <1>16 DEF ConfigInv

LEMMA SetGatewayKeeps ==
    ASSUME ConfigInv, NEW p \in Posters, SetGateway(p)
    PROVE  ConfigInv'
  <1> DEFINE i == post[p]
             j == post'[p]
             k == Head(i.todo)
             v == i.body[k]
  <1>1. ConfigShapes /\ AlonePosts /\ KeysKept /\ NothingGarbled
    BY DEF ConfigInv
  <1>2. i \in PostJobs /\ PostFits(i) /\ i.pc = "set" /\ i.todo # <<>>
    BY <1>1 DEF ConfigShapes, SetGateway
  <1>3. /\ i.todo \in Seq(Keys) /\ i.body \in Bodies
        /\ \A m : InSeq(m, i.todo) => m \in DOMAIN i.body
    BY <1>2 DEF PostJobs, PostFits
  <1>4. /\ k \in Keys /\ Tail(i.todo) \in Seq(Keys) /\ InSeq(k, i.todo)
        /\ \A m : InSeq(m, i.todo) <=> m = k \/ InSeq(m, Tail(i.todo))
    BY <1>2, <1>3, HeadOrTail
  <1>5. k \in DOMAIN i.body
    BY <1>3, <1>4
  <1>6. v \in Values
    BY <1>3, <1>5, ConfigAssumption
  <1>7. Suffixed(k, v) \in Values
    BY <1>6, ConfigAssumption DEF Suffixed
  <1>8. /\ UNCHANGED <<conf, task, chats, sent, stored, posts, excuse>>
        /\ tasked' = tasked \ {k}
        /\ gw' = [gw EXCEPT ![k] = Suffixed(k, v)]
        /\ post' = [post EXCEPT ![p].todo = Tail(@)]
    BY DEF SetGateway
  <1>9. /\ DOMAIN post' = Posters /\ \A q \in Posters : q # p => post'[q] = post[q]
        /\ j \in PostJobs /\ j.pc = "set" /\ j.open = i.open
        /\ j.body = i.body /\ j.text = i.text /\ j.todo = Tail(i.todo)
        /\ post' = [q \in Posters |-> post'[q]]
    BY <1>1, <1>2, <1>4, <1>8 DEF ConfigShapes, PostJobs
  <1>10. /\ gw' \in [Keys -> GwValues]
         /\ gw'[k] = Suffixed(k, v) /\ \A m \in Keys : m # k => gw'[m] = gw[m]
    BY <1>1, <1>4, <1>7, <1>8 DEF ConfigShapes, GwValues
  <1> HIDE DEF j, k, v
  <1>11. PostFits(j)
    BY <1>2, <1>3, <1>4, <1>9 DEF PostFits
  <1>12. \A q \in Posters : post'[q] \in PostJobs /\ PostFits(post'[q])
    BY <1>1, <1>9, <1>11 DEF ConfigShapes, j
  <1>13. ConfigShapes'
    BY <1>1, <1>8, <1>9, <1>10, <1>12 DEF ConfigShapes
  <1>14. \A q \in Posters : /\ post'[q].pc = post[q].pc /\ post'[q].text = post[q].text
                            /\ post'[q].open = post[q].open
    BY <1>2, <1>9 DEF j
  <1>15. AlonePosts' /\ KeysKept' /\ NothingGarbled'
    BY <1>1, <1>8, <1>14 DEF AlonePosts, KeysKept, NothingGarbled
  <1>16. \A q \in Posters :
            post'[q].pc # "idle" /\ excuse' \subseteq {"crash"} => OnItsWay(post'[q], sent', gw', tasked')
    <2>1. SUFFICES ASSUME NEW q \in Posters, post'[q].pc # "idle", excuse \subseteq {"crash"}
                   PROVE  OnItsWay(post'[q], sent, gw', tasked')
      BY <1>8
    <2>2. q = p
      BY <1>1, <1>2, <1>14, <2>1 DEF AlonePosts
    <2>3. OnItsWay(i, sent, gw, tasked)
      BY <1>2, <2>1 DEF ConfigInv
    <2>4. \A m \in Keys : NewValue(j, m, sent) = NewValue(i, m, sent)
      BY <1>9 DEF NewValue
    <2>5. NewValue(i, k, sent) = v
      BY <1>5 DEF NewValue, v
    <2>6. \A m \in Keys : NewValue(i, m, sent) # Unset =>
             /\ FileValue(j.text, m) = NewValue(i, m, sent)
             /\ ~InSeq(m, j.todo) /\ m \notin tasked'
                   => gw'[m] = Suffixed(m, NewValue(i, m, sent))
      BY <1>4, <1>8, <1>9, <1>10, <2>3, <2>5 DEF OnItsWay
    <2>7. OnItsWay(j, sent, gw', tasked')
      BY <1>2, <1>9, <2>3, <2>4, <2>6 DEF OnItsWay
    <2>8. QED
      BY <2>2, <2>7 DEF j
  <1>17. SavedIsRunning'
    <2>1. InProgress' # {}
      BY <1>9 DEF InProgress, j
    <2>2. QED
      BY <2>1 DEF SavedIsRunning
  <1>18. QED
    BY <1>13, <1>15, <1>16, <1>17 DEF ConfigInv

LEMMA RestartKeeps ==
    ASSUME ConfigInv, Restart
    PROVE  ConfigInv'
  <1>1. ConfigShapes /\ AlonePosts /\ KeysKept /\ NothingGarbled
    BY DEF ConfigInv
  <1>2. /\ gw' = Loaded(conf) /\ post' = [p \in Posters |-> IdlePost]
        /\ task' = NoTask /\ tasked' = {}
        /\ sent' = [k \in Keys |-> Unset] /\ UNCHANGED <<conf, stored, posts, chats>>
        /\ excuse' = excuse \union (IF InProgress = {} THEN {} ELSE {"crash"})
    BY DEF Restart
  <1>3. \A p \in Posters : post'[p].pc = "idle" /\ ~post'[p].open /\ PostFits(post'[p])
    BY <1>2, IdlePosts
  <1>4. gw' \in [Keys -> GwValues]
    BY <1>1, <1>2, LoadedTyped DEF ConfigShapes
  <1>5. post' \in [Posters -> PostJobs]
    BY <1>2, IdlePosts
  <1>6. sent' \in [Keys -> Values \union {Unset}]
    BY <1>2
  <1>7. ConfigShapes'
    BY <1>1, <1>2, <1>3, <1>4, <1>5, <1>6, NoTaskTyped DEF ConfigShapes
  <1>8. AlonePosts' /\ NothingGarbled'
    BY <1>1, <1>2, <1>3 DEF AlonePosts, NothingGarbled
  <1>9. KeysKept'
    <2>1. ASSUME {"overlap", "unwritten", "crash"} \intersect excuse' = {}
          PROVE  \A k \in stored : Has(conf, k)
      <3>1. InProgress = {} /\ {"overlap", "unwritten", "crash"} \intersect excuse = {}
        BY <1>2, <2>1
      <3>2. \A p \in Posters : ~post[p].open
        BY <1>1, <3>1 DEF InProgress, ConfigShapes, PostFits
      <3>3. QED
        BY <1>1, <3>1, <3>2 DEF KeysKept
    <2>2. QED
      BY <1>2, <1>3, <2>1 DEF KeysKept
  <1>10. SavedIsRunning'
    BY <1>2 DEF SavedIsRunning
  <1>11. QED
    BY <1>3, <1>7, <1>8, <1>9, <1>10 DEF ConfigInv

(* What lands in the file at the end of a POST: nothing, when the stream is *)
(* not open or its write fails, or the beginning of the text, the whole of *)
(* it when the write does not fail.                                        *)
Begins(t, ls) ==
    /\ t \in Seq(LineSet) /\ DOMAIN t \subseteq DOMAIN ls
    /\ \A m \in DOMAIN t : t[m] = ls[m]
Lands(i, t) ==
    /\ Begins(t, i.text.lines)
    /\ excuse' = excuse \/ excuse' = excuse \union {"unwritten"}
    /\ \/ conf' = conf /\ (~i.open \/ "unwritten" \in excuse')
       \/ /\ i.open /\ conf' = [i.text EXCEPT !.lines = Overlay(t, conf.lines)]
          /\ t = i.text.lines \/ "unwritten" \in excuse'

LEMMA CloseLands ==
    ASSUME NEW p \in Posters, post[p] \in PostJobs, CloseConf(p)
    PROVE  \E t : Lands(post[p], t)
  <1> DEFINE i == post[p]
             ls == i.text.lines
  <1>1. /\ ls \in Seq(LineSet) /\ DOMAIN ls = 1..Len(ls) /\ Len(ls) \in Nat
        /\ \A m \in 1..Len(ls) : ls[m] \in LineSet
    <2>1. ls \in Seq(LineSet)
      BY DEF PostJobs, Confs, Lines, LineSet
    <2> HIDE DEF ls
    <2>2. QED
      BY <2>1
  <1>2. Begins(ls, ls)
    BY <1>1 DEF Begins
  <1>3. CASE WriteBack(p) /\ UNCHANGED excuse
    <2>1. Lands(i, ls)
      BY <1>2, <1>3 DEF Lands, WriteBack
    <2>2. QED
      BY <2>1
  <1>4. CASE i.open /\ WriteFails(p) /\ excuse' = excuse \union {"unwritten"}
    <2>1. CASE UNCHANGED conf
      <3>1. Lands(i, ls)
        BY <1>2, <1>4, <2>1 DEF Lands
      <3>2. QED
        BY <3>1
    <2>2. ASSUME NEW n \in DOMAIN ls,
                 conf' = [i.text EXCEPT !.lines = Overlay(SubSeq(@, 1, n - 1), conf.lines)]
          PROVE  \E t : Lands(i, t)
      <3> DEFINE t == SubSeq(ls, 1, n - 1)
      <3>1. n \in 1..Len(ls) /\ n - 1 \in Nat /\ n - 1 <= Len(ls)
        BY <1>1
      <3>2. \A m \in 1..(n - 1) : m \in 1..Len(ls)
        BY <1>1, <3>1
      <3>3. \A m \in 1..(n - 1) : ls[m] \in LineSet
        BY <1>1, <3>2
      <3>4. t = [m \in 1..(n - 1) |-> ls[m]]
        BY <1>1, <3>1
      <3>5. t \in Seq(LineSet) /\ DOMAIN t = 1..(n - 1) /\ \A m \in DOMAIN t : t[m] = ls[m]
        BY <1>1, <3>1, <3>3, <3>4
      <3>6. Begins(t, ls)
        BY <1>1, <3>2, <3>5 DEF Begins
      <3>7. Lands(i, t)
        BY <1>4, <2>2, <3>6 DEF Lands
      <3>8. QED
        BY <3>7
    <2>3. QED
      BY <1>4, <2>1, <2>2 DEF WriteFails
  <1>5. QED
    BY <1>3, <1>4 DEF CloseConf

LEMMA CloseConfKeeps ==
    ASSUME ConfigInv, NEW p \in Posters, CloseConf(p)
    PROVE  ConfigInv'
  <1> DEFINE i == post[p]
  <1>1. ConfigShapes /\ AlonePosts /\ KeysKept /\ NothingGarbled
    BY DEF ConfigInv
  <1>2. /\ i \in PostJobs /\ PostFits(i) /\ i.pc = "set" /\ i.todo = <<>>
        /\ i.text \in Confs /\ i.body \in Bodies /\ conf \in Confs
    BY <1>1 DEF ConfigShapes, CloseConf, PostJobs, PostFits
  <1>3. /\ UNCHANGED <<gw, task, chats, tasked, posts>>
        /\ sent' = [k \in Keys |-> IF k \in DOMAIN i.body THEN i.body[k] ELSE sent[k]]
        /\ stored' = stored \union {k \in Keys : FileValue(conf', k) # Unset}
        /\ post' = [post EXCEPT ![p] = IdlePost]
    BY DEF CloseConf, taskState
  <1>4. /\ post' \in [Posters -> PostJobs] /\ post'[p] = IdlePost
        /\ \A q \in Posters : q # p => post'[q] = post[q]
    BY <1>1, <1>3, IdlePosts DEF ConfigShapes
  <1>5. PICK t : Lands(i, t)
    BY <1>2, CloseLands
  <1> DEFINE over == Overlay(t, conf.lines)
  <1>6. /\ over \in Lines /\ over \in Seq(LineSet)
        /\ conf = Empty => over = t
    <2>1. t \in Seq(LineSet) /\ conf.lines \in Seq(LineSet)
      BY <1>2, <1>5 DEF Lands, Begins, Confs, Lines, LineSet
    <2>2. over \in Seq(LineSet)
      BY <2>1, OverlayTyped
    <2>3. conf = Empty => over = t
      BY <2>1, OverEmpty, EmptyConf
    <2>4. QED
      BY <2>2, <2>3 DEF Lines, LineSet
  <1> HIDE DEF over
  <1>7. /\ conf' \in Confs
        /\ \/ conf' = conf
           \/ i.open /\ conf'.ai = i.text.ai /\ conf'.lines = over
        /\ "unwritten" \notin excuse' =>
              /\ i.open => conf'.ai = i.text.ai /\ conf'.lines = over /\ t = i.text.lines
              /\ ~i.open => conf' = conf
        /\ excuse' = excuse \/ excuse' = excuse \union {"unwritten"}
    BY <1>2, <1>5, <1>6 DEF Lands, Confs, over
  <1>8. sent' \in [Keys -> Values \union {Unset}]
    <2>1. \A k \in DOMAIN i.body : i.body[k] \in Values
      BY <1>2, ConfigAssumption
    <2>2. QED
      BY <1>1, <1>3, <2>1 DEF ConfigShapes
  <1>9. \A q \in Posters : PostFits(post'[q])
    BY <1>1, <1>4, IdlePosts DEF ConfigShapes
  <1>10. ConfigShapes'
    <2>1. /\ excuse' \subseteq {"overlap", "unopened", "unwritten", "nosection", "mention", "crash"}
          /\ stored' \subseteq Keys
      BY <1>1, <1>3, <1>7 DEF ConfigShapes
    <2>2. QED
      BY <1>1, <1>3, <1>4, <1>7, <1>8, <1>9, <2>1 DEF ConfigShapes
  <1>11. "overlap" \notin excuse =>
            /\ \A q \in Posters : post'[q].pc = "idle" /\ ~post'[q].open
            /\ \A q \in Posters : q # p => ~post[q].open
            /\ i.open => conf = Empty
            /\ OneLineEach(conf.lines) /\ OneLineEach(i.text.lines)
    BY <1>1, <1>2, <1>4, IdlePosts DEF AlonePosts, ConfigShapes, PostFits
  <1>12. /\ OneLineEach(i.text.lines) => OneLineEach(t)
         /\ Readable(i.text.lines) => Readable(t)
    BY <1>5 DEF Lands, Begins, OneLineEach, Readable
  <1>13. AlonePosts'
    <2>1. SUFFICES ASSUME "overlap" \notin excuse
                   PROVE  OneLineEach(conf'.lines)
      BY <1>7, <1>11 DEF AlonePosts
    <2>2. QED
      BY <1>6, <1>7, <1>11, <1>12, <2>1
  <1>14. KeysKept'
    <2>1. SUFFICES ASSUME {"overlap", "unwritten", "crash"} \intersect excuse' = {}
                   PROVE  /\ \A k \in stored' : Has(conf', k)
                          /\ \A q \in Posters : post'[q].pc = "idle"
      BY DEF KeysKept
    <2>2. {"overlap", "unwritten", "crash"} \intersect excuse = {}
      <3>1. excuse \subseteq excuse'
        BY <1>7
      <3>2. QED
        BY <2>1, <3>1
    <2>3. \A k \in stored : Has(conf', k)
      <3>1. CASE i.open
        <4>1. \A k \in stored : Has(i.text, k)
          BY <1>1, <1>2, <2>2 DEF KeysKept
        <4>2. conf'.ai = i.text.ai /\ conf'.lines = i.text.lines
          BY <1>6, <1>7, <1>11, <2>1, <2>2, <3>1
        <4>3. QED
          BY <4>1, <4>2 DEF Has
      <3>2. CASE ~i.open
        <4>1. conf' = conf /\ \A q \in Posters : ~post[q].open
          BY <1>7, <1>11, <2>1, <2>2, <3>2
        <4>2. QED
          BY <1>1, <2>2, <4>1 DEF KeysKept
      <3>3. QED
        BY <3>1, <3>2
    <2>4. \A k \in Keys : FileValue(conf', k) # Unset => Has(conf', k)
      BY <1>7, FileValueIs, KeysAreNames
    <2>5. QED
      BY <1>3, <1>11, <2>2, <2>3, <2>4
  <1>15. NothingGarbled'
    <2>1. SUFFICES ASSUME {"overlap", "mention"} \intersect excuse = {}
                   PROVE  Readable(conf'.lines)
      BY <1>7, <1>11 DEF NothingGarbled
    <2>2. Readable(conf.lines) /\ Readable(i.text.lines)
      BY <1>1, <1>2, <2>1 DEF NothingGarbled
    <2>3. QED
      BY <1>6, <1>7, <1>11, <1>12, <2>1, <2>2
  <1>16. \A q \in Posters :
            post'[q].pc # "idle" /\ excuse' \subseteq {"crash"}
               => OnItsWay(post'[q], sent', gw', tasked')
    <2>1. excuse' \subseteq {"crash"} => "overlap" \notin excuse
      BY <1>7
    <2>2. QED
      BY <1>11, <2>1
  <1>17. SavedIsRunning'
    <2>1. SUFFICES ASSUME excuse' \subseteq {"crash"}, NEW k \in Keys, sent'[k] # Unset
                   PROVE  /\ FileValue(conf', k) = sent'[k]
                          /\ k \notin tasked' => gw'[k] = Suffixed(k, sent'[k])
      BY DEF SavedIsRunning
    <2>2. excuse \subseteq {"crash"} /\ "overlap" \notin excuse /\ "unwritten" \notin excuse'
      <3>1. excuse \subseteq excuse' /\ "unwritten" \notin excuse'
        BY <1>7, <2>1
      <3>2. QED
        BY <2>1, <3>1
    <2>3. OnItsWay(i, sent, gw, tasked)
      BY <1>2, <2>2 DEF ConfigInv
    <2>4. sent'[k] = NewValue(i, k, sent)
      BY <1>3 DEF NewValue
    <2>5. ~InSeq(k, i.todo) /\ i.open
      BY <1>2, <2>3 DEF InSeq, OnItsWay
    <2>6. /\ FileValue(i.text, k) = sent'[k]
          /\ k \notin tasked => gw[k] = Suffixed(k, sent'[k])
      BY <2>1, <2>3, <2>4, <2>5 DEF OnItsWay
    <2>7. conf'.ai = i.text.ai /\ conf'.lines = i.text.lines
      BY <1>6, <1>7, <1>11, <2>2, <2>5
    <2>8. FileValue(conf', k) = FileValue(i.text, k)
      BY <2>7 DEF FileValue
    <2>9. QED
      BY <1>3, <2>6, <2>8
  <1>18. QED
    BY <1>10, <1>13, <1>14, <1>15, <1>16, <1>17 DEF ConfigInv

(* A task of /chat/memory touches the gateway only, and says so.           *)
LEMMA TaskKeeps ==
    ASSUME ConfigInv, TaskResolves \/ TaskSets
    PROVE  ConfigInv'
  <1>1. ConfigShapes /\ AlonePosts /\ KeysKept /\ NothingGarbled
    BY DEF ConfigInv
  <1>2. UNCHANGED <<conf, post, sent, stored, posts, excuse>>
    BY DEF TaskResolves, TaskSets
  <1>3. /\ gw' \in [Keys -> GwValues] /\ task' \in [key : GwValues, todo : Seq(Keys)]
        /\ chats' \in 0..MaxChats /\ tasked \subseteq tasked' /\ tasked' \subseteq Keys
        /\ \A k \in Keys : k \notin tasked' => gw'[k] = gw[k]
    <2>1. CASE TaskResolves
      <3>1. PICK own \in BOOLEAN :
              task' = IF TaskKey(own) = Unset THEN NoTask
                      ELSE [key |-> TaskKey(own), todo |-> <<"api_key", "model", "api_base">>]
        BY <2>1 DEF TaskResolves
      <3>2. TaskKey(own) \in GwValues
        <4>1. \A k \in Names : FileValue(conf, k) \in GwValues
          BY <1>1, FileValueIs DEF ConfigShapes, GwValues
        <4>2. "api_key" \in Names /\ ProviderKey \in Names /\ Account \in GwValues
          BY KeysAreNames DEF Keys, GwValues
        <4>3. QED
          BY <4>1, <4>2 DEF TaskKey
      <3>3. <<"api_key", "model", "api_base">> \in Seq(Keys)
        BY DEF Keys
      <3>4. task' \in [key : GwValues, todo : Seq(Keys)]
        BY <3>1, <3>2, <3>3, NoTaskTyped
      <3>5. chats < MaxChats /\ chats' = chats + 1 /\ gw' = gw /\ tasked' = tasked
        BY <2>1 DEF TaskResolves
      <3>6. chats' \in 0..MaxChats
        BY <1>1, <3>5, ConfigAssumption DEF ConfigShapes
      <3>7. QED
        BY <1>1, <3>4, <3>5, <3>6 DEF ConfigShapes
    <2>2. CASE TaskSets
      <3> DEFINE k == Head(task.todo)
                 v == IF k = "api_key" THEN task.key ELSE Account
      <3>1. task.todo \in Seq(Keys) /\ task.todo # <<>> /\ task.key \in GwValues
        BY <1>1, <2>2 DEF ConfigShapes, TaskSets
      <3>2. k \in Keys /\ Tail(task.todo) \in Seq(Keys)
        BY <3>1, HeadOrTail
      <3>3. v \in GwValues
        BY <3>1 DEF GwValues
      <3>4. /\ gw' = [gw EXCEPT ![k] = v] /\ tasked' = tasked \union {k}
            /\ task' = [task EXCEPT !.todo = Tail(@)] /\ chats' = chats
        BY <2>2 DEF TaskSets
      <3> HIDE DEF k, v
      <3>5. task' \in [key : GwValues, todo : Seq(Keys)]
        BY <1>1, <3>2, <3>4 DEF ConfigShapes
      <3>6. gw' \in [Keys -> GwValues] /\ \A m \in Keys : m # k => gw'[m] = gw[m]
        BY <1>1, <3>2, <3>3, <3>4 DEF ConfigShapes
      <3>7. QED
        BY <1>1, <3>2, <3>4, <3>5, <3>6 DEF ConfigShapes
    <2>3. QED
      BY <2>1, <2>2
  <1>4. ConfigShapes'
    BY <1>1, <1>2, <1>3 DEF ConfigShapes
  <1>5. AlonePosts' /\ KeysKept' /\ NothingGarbled'
    BY <1>1, <1>2 DEF AlonePosts, KeysKept, NothingGarbled
  <1>6. \A q \in Posters :
            post'[q].pc # "idle" /\ excuse' \subseteq {"crash"}
               => OnItsWay(post'[q], sent', gw', tasked')
    <2>1. SUFFICES ASSUME NEW q \in Posters, post[q].pc # "idle", excuse \subseteq {"crash"}
                   PROVE  OnItsWay(post[q], sent, gw', tasked')
      BY <1>2
    <2>2. OnItsWay(post[q], sent, gw, tasked)
      BY <2>1 DEF ConfigInv
    <2>3. QED
      BY <1>3, <2>2 DEF OnItsWay
  <1>7. SavedIsRunning'
    <2>1. SavedIsRunning
      BY DEF ConfigInv
    <2>2. QED
      BY <1>2, <1>3, <2>1 DEF SavedIsRunning, InProgress
  <1>8. QED
    BY <1>4, <1>5, <1>6, <1>7 DEF ConfigInv

LEMMA ConfigStep == ConfigInv /\ [NextConfig]_configVars => ConfigInv'
  <1> SUFFICES ASSUME ConfigInv, [NextConfig]_configVars
               PROVE  ConfigInv'
    OBVIOUS
  <1>1. CASE \E p \in Posters : ReadConf(p) \/ Truncate(p) \/ SetGateway(p) \/ CloseConf(p)
    BY <1>1, ReadConfKeeps, TruncateKeeps, SetGatewayKeeps, CloseConfKeeps
  <1>2. CASE Restart
    BY <1>2, RestartKeeps
  <1>5. CASE TaskResolves \/ TaskSets
    BY <1>5, TaskKeeps
  <1>3. CASE UNCHANGED configVars
    BY <1>3 DEF configVars, taskState, ConfigInv, ConfigShapes, AlonePosts, KeysKept, NothingGarbled,
               SavedIsRunning, InProgress
  <1>4. QED
    BY <1>1, <1>2, <1>3, <1>5 DEF NextConfig

LEMMA ConfigHolds == ConfigSpec => []ConfigInv
  BY ConfigInitially, ConfigStep, PTL DEF ConfigSpec

LEMMA ConfigTyped == ConfigInv => ConfigTypeOK
  BY DEF ConfigInv, ConfigShapes, ConfigTypeOK, PostJobs

(* The variables of ServerConfig keep their types.                         *)
THEOREM ConfigTypes == ConfigSpec => []ConfigTypeOK
  BY ConfigTyped, ConfigHolds, PTL

(* When no POST /api/config is at work, and none has overlapped another,   *)
(* failed to open or to write server.conf, met a file without its section  *)
(* or a key's name inside another line, the file holds for every key what  *)
(* was saved last, and so does the running gateway for the keys that no    *)
(* chat task has set since, whatever the values and the number of threads. *)
THEOREM SavedIsWhatRuns == ConfigSpec => []SavedIsRunning
  <1>1. ConfigInv => SavedIsRunning
    BY DEF ConfigInv
  <1>2. QED
    BY <1>1, ConfigHolds, PTL

(* Without an overlap, a failed write and a death in the middle of a POST, *)
(* no key that server.conf once held is ever lost: it is in the file or in *)
(* the text of the POST that has emptied the file and is going to write    *)
(* it.  A file that does not open, a missing section or a name met inside  *)
(* another line cost no stored key.                                        *)
THEOREM StoredKeysAreSafe == ConfigSpec => []StoredKeysSafe
  <1>1. ConfigInv => StoredKeysSafe
    <2>1. SUFFICES ASSUME ConfigInv, excuse \intersect {"overlap", "unwritten", "crash"} = {}, NEW k \in stored
                   PROVE  \/ FileValue(conf, k) # Unset
                          \/ \E p \in Posters : post[p].open /\ FileValue(post[p].text, k) # Unset
      BY DEF StoredKeysSafe
    <2>2. ConfigShapes /\ KeysKept /\ k \in Keys
      BY <2>1 DEF ConfigInv, ConfigShapes
    <2>3. CASE \A p \in Posters : ~post[p].open
      <3>1. Has(conf, k) /\ conf \in Confs
        BY <2>1, <2>2, <2>3 DEF KeysKept, ConfigShapes
      <3>2. QED
        BY <2>2, <3>1, FileValueIs, KeysAreNames
    <2>4. ASSUME NEW p \in Posters, post[p].open
          PROVE  FileValue(post[p].text, k) # Unset
      <3>1. post[p] \in PostJobs /\ PostFits(post[p])
        BY <2>2 DEF ConfigShapes
      <3>2. post[p].text \in Confs /\ post[p].pc = "set"
        BY <2>4, <3>1 DEF PostJobs, PostFits
      <3>3. Has(post[p].text, k)
        BY <2>1, <2>2, <3>2 DEF KeysKept
      <3>4. QED
        BY <2>2, <3>2, <3>3, FileValueIs, KeysAreNames
    <2>5. QED
      BY <2>3, <2>4
  <1>2. QED
    BY <1>1, ConfigHolds, PTL

-----------------------------------------------------------------------------
(* Services: every component keeps its own invariant beside the others     *)

ServicesInv ==
    /\ PoolInv /\ LifecycleInv /\ ConfigInv /\ DispatchInv /\ AnswersFit
    /\ RagInv /\ UploadInv /\ ToolInv

LEMMA ServicesInitially == InitServices => ServicesInv
  BY PoolInitially, LifecycleInitially, ConfigInitially, DispatchInitially, AnswersInitially,
     RagInitially, UploadInitially, ToolsInitially DEF InitServices, ServicesInv

(* A step of one component is a step of it, or of none, for each of them.  *)
LEMMA EachStepsAlone ==
    ASSUME [NextServices]_servicesVars
    PROVE  /\ [NextPool]_poolVars /\ [NextLifecycle]_lifecycleVars /\ [NextConfig]_configVars
           /\ [NextDispatch]_dispatchVars /\ [NextRag]_ragVars
           /\ [NextUploads]_uploadVars /\ [NextTools]_toolVars
  BY DEF NextServices, servicesVars, services

LEMMA ServicesStep == ServicesInv /\ [NextServices]_servicesVars => ServicesInv'
  <1> SUFFICES ASSUME ServicesInv, [NextServices]_servicesVars
               PROVE  ServicesInv'
    OBVIOUS
  <1>1. /\ [NextPool]_poolVars /\ [NextLifecycle]_lifecycleVars /\ [NextConfig]_configVars
        /\ [NextDispatch]_dispatchVars /\ [NextRag]_ragVars
        /\ [NextUploads]_uploadVars /\ [NextTools]_toolVars
    BY EachStepsAlone
  <1>2. PoolInv' /\ LifecycleInv' /\ ConfigInv'
    BY <1>1, PoolStep, LifecycleStep, ConfigStep DEF ServicesInv
  <1>3. DispatchInv' /\ AnswersFit'
    BY <1>1, DispatchStep, AnswerStep DEF ServicesInv
  <1>4. RagInv'
    BY <1>1, RagStep DEF ServicesInv
  <1>5. UploadInv' /\ ToolInv'
    BY <1>1, UploadStep, ToolStep DEF ServicesInv
  <1>6. QED
    BY <1>2, <1>3, <1>4, <1>5 DEF ServicesInv

(* Side by side, the variables of every component keep their types.        *)
THEOREM ServicesTypes == ServicesSpec => []ServicesTypeOK
  <1>1. PoolInv /\ LifecycleInv /\ DispatchInv => PoolTypeOK /\ LifecycleTypeOK /\ DispatchTypeOK
    BY DEF PoolInv, LifecycleInv, DispatchInv
  <1>2. ConfigInv => ConfigTypeOK
    BY ConfigTyped
  <1>3. RagInv => RagTypeOK
    BY RagTyped
  <1>4. UploadInv => UploadsTypeOK
    BY UploadsTyped
  <1>5. ToolInv => ToolsTypeOK
    BY ToolsTyped
  <1>6. ServicesInv => ServicesTypeOK
    BY <1>1, <1>2, <1>3, <1>4, <1>5 DEF ServicesInv, ServicesTypeOK
  <1>7. QED
    BY <1>6, ServicesInitially, ServicesStep, PTL DEF ServicesSpec
=============================================================================
