-------------------------- MODULE ApplicationProofs --------------------------
(***************************************************************************)
(* Proofs about an application before it runs: the store that keeps it and *)
(* the preflight of its audio formats.                                     *)
(*                                                                         *)
(* What the host of the designer reported as saved is not lost, for every  *)
(* number of projects, editors and documents, through any sequence of      *)
(* saves, writes by others and ends of the host (NoSaveIsLost).            *)
(* SavedIsNotLost is not inductive.  It needs that only the first write of *)
(* a name is past its queue (FirstRuns), that a write which has compared   *)
(* the revision still expects what is owed (Compared), that one which was  *)
(* renamed is what the file holds (Renamed), and that a saved file is on   *)
(* the disk as well, where the end of the host finds it (OwedOnDisk).      *)
(*                                                                         *)
(* The formats of a plan that was accepted agree along every connection    *)
(* and are those that were declared (AcceptedFormatsAgree): a round only   *)
(* adds what was not known, and the last one found nothing to add.         *)
(***************************************************************************)
EXTENDS ProjectStore, AudioFormats, SequenceTheorems, WellFoundedInduction, TLAPS

Contents == Documents \cup {Absent}
Writes == [by : Editors, expected : Contents, document : Documents,
           at : {"queued", "compared", "written", "renamed", "replaced"}]
EditorStates == [shown : Projects \cup {0}, hosted : Projects \cup {0}, revision : Contents,
                 saving : BOOLEAN]
Replies == [to : Editors, about : {"open", "saved", "failed"}, name : Projects,
            revision : Contents]

(* Every variable has its type. *)
StoreTypeOK ==
  /\ project \in [Projects -> Contents] /\ disk \in [Projects -> Contents]
  /\ pending \in [Projects -> Seq(Writes)]
  /\ editor \in [Editors -> EditorStates]
  /\ replies \subseteq Replies
  /\ owed \in [Projects -> Contents \cup {NotOwed}]

FirstRuns ==
  \A n \in Projects : \A i \in DOMAIN pending[n] : i # 1 => pending[n][i].at = "queued"

Compared ==
  \A n \in Projects :
    pending[n] # <<>> /\ pending[n][1].at \in {"compared", "written"} /\ owed[n] # NotOwed
      => owed[n] = pending[n][1].expected

Renamed ==
  \A n \in Projects :
    pending[n] # <<>> /\ pending[n][1].at = "renamed" =>
      project[n] = pending[n][1].document /\ owed[n] = NotOwed

OwedOnDisk == \A n \in Projects : owed[n] # NotOwed => disk[n] = owed[n]

StoreInv ==
  StoreTypeOK /\ FirstRuns /\ Compared /\ Renamed /\ OwedOnDisk /\ SavedIsNotLost

-----------------------------------------------------------------------------
(* The queue of a name                                                     *)

(* Without its first write, the queue holds the others in their order. *)
LEMMA WithoutFirst ==
  ASSUME NEW S, NEW s \in Seq(S), s # <<>>
  PROVE  /\ RemoveAt(s, 1) \in Seq(S)
         /\ Len(RemoveAt(s, 1)) = Len(s) - 1
         /\ \A j \in 1 .. Len(s) - 1 : RemoveAt(s, 1)[j] = s[j + 1]
<1>1. Len(s) \in Nat \ {0}
  BY EmptySeq, LenProperties
<1>2. \A j \in 2 .. Len(s) : s[j] \in S
  BY <1>1, ElementOfSeq
<1>3. /\ SubSeq(s, 2, Len(s)) \in Seq(S)
      /\ Len(SubSeq(s, 2, Len(s))) = IF 2 <= Len(s) THEN Len(s) - 2 + 1 ELSE 0
      /\ \A j \in 1 .. Len(s) - 2 + 1 : SubSeq(s, 2, Len(s))[j] = s[2 + j - 1]
  <2> HIDE <1>2
  <2> QED
    BY <1>1, <1>2, SubSeqProperties
<1>4. SubSeq(s, 1, 0) = <<>>
  BY SubSeqEmpty
<1>5. RemoveAt(s, 1) = SubSeq(s, 2, Len(s))
  BY <1>1, <1>3, <1>4, ConcatEmptySeq DEF RemoveAt
<1>6. Len(RemoveAt(s, 1)) = Len(s) - 1
  BY <1>1, <1>3, <1>5
<1>7. ASSUME NEW j \in 1 .. Len(s) - 1 PROVE RemoveAt(s, 1)[j] = s[j + 1]
  <2>1. j \in 1 .. Len(s) - 2 + 1 /\ 2 + j - 1 = j + 1
    BY <1>1
  <2> QED
    BY <1>3, <1>5, <2>1
<1> QED
  BY <1>3, <1>5, <1>6, <1>7

(* What becomes of the queues when the first write of n is answered. *)
LEMMA AnsweredQueue ==
  ASSUME StoreTypeOK, FirstRuns, NEW n \in Projects, pending[n] # <<>>,
         pending' = [pending EXCEPT ![n] = RemoveAt(@, 1)]
  PROVE  /\ pending' \in [Projects -> Seq(Writes)]
         /\ \A m \in Projects : m # n => pending'[m] = pending[m]
         /\ \A j \in DOMAIN pending'[n] : pending'[n][j].at = "queued"
<1>1. pending[n] \in Seq(Writes) /\ pending \in [Projects -> Seq(Writes)]
  BY DEF StoreTypeOK
<1>2. pending'[n] = RemoveAt(pending[n], 1)
  BY <1>1
<1>3. /\ pending'[n] \in Seq(Writes) /\ Len(pending'[n]) = Len(pending[n]) - 1
      /\ \A j \in 1 .. Len(pending[n]) - 1 : pending'[n][j] = pending[n][j + 1]
  BY <1>1, <1>2, WithoutFirst
<1>4. \A m \in Projects : m # n => pending'[m] = pending[m]
  BY <1>1
<1>5. ASSUME NEW j \in DOMAIN pending'[n] PROVE pending'[n][j].at = "queued"
  <2>1. j \in 1 .. Len(pending[n]) - 1 /\ j + 1 \in DOMAIN pending[n] /\ j + 1 # 1
    BY <1>1, <1>3, <1>5, LenProperties
  <2> QED
    BY <1>3, <2>1 DEF FirstRuns
<1>6. pending' \in [Projects -> Seq(Writes)]
  BY <1>1, <1>3, <1>4
<1> QED
  BY <1>4, <1>5, <1>6

(* A write that goes on is the same but for its place. *)
LEMMA AdvancedWrite ==
  ASSUME NEW w \in Writes, NEW at \in {"queued", "compared", "written", "renamed", "replaced"}
  PROVE  /\ Advanced(w, at) \in Writes
         /\ Advanced(w, at).at = at
         /\ Advanced(w, at).expected = w.expected
         /\ Advanced(w, at).document = w.document
BY DEF Advanced, Writes

(* What becomes of the queues when the first write of n goes on. *)
LEMMA AdvancedQueue ==
  ASSUME StoreTypeOK, NEW n \in Projects, pending[n] # <<>>,
         NEW at \in {"compared", "written", "renamed"}, Step(n, 1, at)
  PROVE  /\ pending' \in [Projects -> Seq(Writes)]
         /\ \A m \in Projects : m # n => pending'[m] = pending[m]
         /\ pending'[n] # <<>> /\ DOMAIN pending'[n] = DOMAIN pending[n]
         /\ \A j \in DOMAIN pending[n] : j # 1 => pending'[n][j] = pending[n][j]
         /\ pending'[n][1].at = at
         /\ pending'[n][1].expected = pending[n][1].expected
         /\ pending'[n][1].document = pending[n][1].document
<1>1. pending[n] \in Seq(Writes) /\ pending \in [Projects -> Seq(Writes)]
  BY DEF StoreTypeOK
<1>2. Len(pending[n]) \in Nat \ {0} /\ 1 \in DOMAIN pending[n] /\ pending[n][1] \in Writes
  BY <1>1, EmptySeq, LenProperties, ElementOfSeq
<1> DEFINE w == Advanced(pending[n][1], at)
<1>3. /\ w \in Writes /\ w.at = at /\ w.expected = pending[n][1].expected
      /\ w.document = pending[n][1].document
  BY <1>2, AdvancedWrite
<1>4. pending'[n] = [pending[n] EXCEPT ![1] = w]
  BY <1>1 DEF Step
<1>5. \A m \in Projects : m # n => pending'[m] = pending[m]
  BY <1>1 DEF Step
<1> HIDE DEF w
<1>6. pending'[n] \in Seq(Writes) /\ Len(pending'[n]) = Len(pending[n])
  BY <1>1, <1>2, <1>3, <1>4, ExceptSeq, LenProperties
<1>7. pending'[n][1] = w
  BY <1>1, <1>2, <1>4
<1>8. \A j \in DOMAIN pending[n] : j # 1 => pending'[n][j] = pending[n][j]
  BY <1>1, <1>2, <1>4
<1>9. DOMAIN pending'[n] = DOMAIN pending[n]
  BY <1>1, <1>4
<1>10. pending' = [pending EXCEPT ![n] = [pending[n] EXCEPT ![1] = w]]
  BY DEF Step, w
<1>11. pending' \in [Projects -> Seq(Writes)]
  BY <1>1, <1>4, <1>6, <1>10
<1>12. pending'[n] # <<>>
  BY <1>2, <1>6, EmptySeq
<1> QED
  BY <1>3, <1>5, <1>7, <1>8, <1>9, <1>11, <1>12

-----------------------------------------------------------------------------
(* The steps of the host                                                   *)

(* The first write of a name is one, and its answer goes to an editor. *)
LEMMA FirstWrite ==
  ASSUME StoreTypeOK, NEW n \in Projects, NEW i \in Running(n)
  PROVE  i = 1 /\ pending[n] # <<>> /\ 1 \in DOMAIN pending[n] /\ pending[n][1] \in Writes
<1>1. pending[n] \in Seq(Writes)
  BY DEF StoreTypeOK
<1>2. i = 1 /\ 1 \in DOMAIN pending[n]
  BY DEF Running
<1>3. pending[n] # <<>>
  BY <1>1, <1>2, EmptySeq, LenProperties
<1>4. pending[n][1] \in Writes
  BY <1>1, <1>2, ElementOfSeq, LenProperties
<1> QED
  BY <1>2, <1>3, <1>4

(* An answer is a reply. *)
LEMMA AnswerReplies ==
  ASSUME StoreTypeOK, NEW n \in Projects, pending[n][1] \in Writes,
         NEW about \in {"saved", "failed"}, Answer(n, 1, about)
  PROVE  replies' \subseteq Replies
BY DEF StoreTypeOK, Answer, Replies, Writes, Contents

(* A write that fails before it changed the file loses nothing. *)
LEMMA FailedKeeps ==
  ASSUME StoreInv, NEW n \in Projects, pending[n] # <<>>, pending[n][1] \in Writes,
         Answer(n, 1, "failed"), UNCHANGED <<project, disk, owed, editor>>
  PROVE  StoreInv'
<1> USE DEF StoreInv
<1>1. /\ pending' \in [Projects -> Seq(Writes)]
      /\ \A m \in Projects : m # n => pending'[m] = pending[m]
      /\ \A j \in DOMAIN pending'[n] : pending'[n][j].at = "queued"
  BY AnsweredQueue DEF Answer
<1>2. pending'[n] # <<>> => 1 \in DOMAIN pending'[n]
  BY <1>1, EmptySeq, LenProperties
<1>3. StoreTypeOK'
  BY <1>1, AnswerReplies DEF StoreTypeOK
<1>4. FirstRuns'
  BY <1>1 DEF FirstRuns
<1>5. Compared'
  BY <1>1, <1>2 DEF Compared
<1>6. Renamed'
  BY <1>1, <1>2 DEF Renamed
<1>7. OwedOnDisk' /\ SavedIsNotLost'
  BY DEF OwedOnDisk, SavedIsNotLost
<1> QED
  BY <1>3, <1>4, <1>5, <1>6, <1>7

(* A write that compares the revision expects what the file holds, which   *)
(* is what is owed.                                                        *)
LEMMA CompareKeeps ==
  ASSUME StoreInv, NEW n \in Projects, pending[n] # <<>>, pending[n][1] \in Writes,
         project[n] = pending[n][1].expected, Step(n, 1, "compared"),
         UNCHANGED <<project, disk, owed, editor, replies>>
  PROVE  StoreInv'
<1> USE DEF StoreInv
<1>1. /\ pending' \in [Projects -> Seq(Writes)]
      /\ \A m \in Projects : m # n => pending'[m] = pending[m]
      /\ pending'[n] # <<>> /\ DOMAIN pending'[n] = DOMAIN pending[n]
      /\ \A j \in DOMAIN pending[n] : j # 1 => pending'[n][j] = pending[n][j]
      /\ pending'[n][1].at = "compared"
      /\ pending'[n][1].expected = pending[n][1].expected
  BY AdvancedQueue
<1>2. StoreTypeOK'
  BY <1>1 DEF StoreTypeOK
<1>3. FirstRuns'
  BY <1>1 DEF FirstRuns
<1>4. Compared'
  BY <1>1 DEF Compared, SavedIsNotLost
<1>5. Renamed'
  BY <1>1 DEF Renamed
<1>6. OwedOnDisk' /\ SavedIsNotLost'
  BY DEF OwedOnDisk, SavedIsNotLost
<1> QED
  BY <1>2, <1>3, <1>4, <1>5, <1>6

(* The temporary file is beside the project. *)
LEMMA WriteKeeps ==
  ASSUME StoreInv, NEW n \in Projects, pending[n] # <<>>, pending[n][1] \in Writes,
         pending[n][1].at = "compared", Step(n, 1, "written"),
         UNCHANGED <<project, disk, owed, editor, replies>>
  PROVE  StoreInv'
<1> USE DEF StoreInv
<1>1. /\ pending' \in [Projects -> Seq(Writes)]
      /\ \A m \in Projects : m # n => pending'[m] = pending[m]
      /\ pending'[n] # <<>> /\ DOMAIN pending'[n] = DOMAIN pending[n]
      /\ \A j \in DOMAIN pending[n] : j # 1 => pending'[n][j] = pending[n][j]
      /\ pending'[n][1].at = "written"
      /\ pending'[n][1].expected = pending[n][1].expected
  BY AdvancedQueue
<1>2. StoreTypeOK'
  BY <1>1 DEF StoreTypeOK
<1>3. FirstRuns'
  BY <1>1 DEF FirstRuns
<1>4. Compared'
  BY <1>1 DEF Compared
<1>5. Renamed'
  BY <1>1 DEF Renamed
<1>6. OwedOnDisk' /\ SavedIsNotLost'
  BY DEF OwedOnDisk, SavedIsNotLost
<1> QED
  BY <1>2, <1>3, <1>4, <1>5, <1>6

(* The rename replaces what the writer has seen: nothing is owed then. *)
LEMMA RenameKeeps ==
  ASSUME StoreInv, NEW n \in Projects, pending[n] # <<>>, pending[n][1] \in Writes,
         pending[n][1].at = "written", Step(n, 1, "renamed"),
         project' = [project EXCEPT ![n] = pending[n][1].document],
         owed' = [owed EXCEPT ![n] = IF @ = pending[n][1].expected THEN NotOwed ELSE @],
         UNCHANGED <<disk, editor, replies>>
  PROVE  StoreInv'
<1> USE DEF StoreInv
<1>1. /\ pending' \in [Projects -> Seq(Writes)]
      /\ \A m \in Projects : m # n => pending'[m] = pending[m]
      /\ pending'[n] # <<>> /\ DOMAIN pending'[n] = DOMAIN pending[n]
      /\ \A j \in DOMAIN pending[n] : j # 1 => pending'[n][j] = pending[n][j]
      /\ pending'[n][1].at = "renamed"
      /\ pending'[n][1].document = pending[n][1].document
  BY AdvancedQueue
<1>2. owed[n] # NotOwed => owed[n] = pending[n][1].expected
  BY DEF Compared
<1>3. /\ project'[n] = pending[n][1].document /\ owed'[n] = NotOwed
      /\ \A m \in Projects : m # n => project'[m] = project[m] /\ owed'[m] = owed[m]
  BY <1>2 DEF StoreTypeOK
<1>4. StoreTypeOK'
  BY <1>1 DEF StoreTypeOK, Writes, Contents
<1>5. FirstRuns'
  BY <1>1 DEF FirstRuns
<1>6. Compared'
  BY <1>1, <1>3 DEF Compared
<1>7. Renamed'
  BY <1>1, <1>3 DEF Renamed
<1>8. OwedOnDisk' /\ SavedIsNotLost'
  BY <1>3 DEF OwedOnDisk, SavedIsNotLost
<1> QED
  BY <1>4, <1>5, <1>6, <1>7, <1>8

(* What is reported as saved is what the file holds and what the disk      *)
(* received; a write that others replaced synchronizes theirs.             *)
LEMMA SyncKeeps ==
  ASSUME StoreInv, NEW n \in Projects, pending[n] # <<>>, pending[n][1] \in Writes,
         pending[n][1].at \in {"renamed", "replaced"}, Answer(n, 1, "saved"),
         disk' = [disk EXCEPT ![n] = project[n]],
         owed' = [owed EXCEPT ![n] =
                   IF pending[n][1].at = "renamed" THEN pending[n][1].document ELSE @],
         UNCHANGED <<project, editor>>
  PROVE  StoreInv'
<1> USE DEF StoreInv
<1>1. /\ pending' \in [Projects -> Seq(Writes)]
      /\ \A m \in Projects : m # n => pending'[m] = pending[m]
      /\ \A j \in DOMAIN pending'[n] : pending'[n][j].at = "queued"
  BY AnsweredQueue DEF Answer
<1>2. pending'[n] # <<>> => 1 \in DOMAIN pending'[n]
  BY <1>1, EmptySeq, LenProperties
<1>3. /\ disk'[n] = project[n]
      /\ owed'[n] = IF pending[n][1].at = "renamed" THEN pending[n][1].document ELSE owed[n]
      /\ \A m \in Projects : m # n => disk'[m] = disk[m] /\ owed'[m] = owed[m]
  BY DEF StoreTypeOK
<1>4. StoreTypeOK'
  BY <1>1, AnswerReplies DEF StoreTypeOK, Writes, Contents
<1>5. FirstRuns'
  BY <1>1 DEF FirstRuns
<1>6. Compared'
  BY <1>1, <1>2, <1>3 DEF Compared
<1>7. Renamed'
  BY <1>1, <1>2, <1>3 DEF Renamed
<1>8. owed'[n] # NotOwed => project[n] = owed'[n]
  BY <1>3 DEF Renamed, SavedIsNotLost
<1>9. OwedOnDisk' /\ SavedIsNotLost'
  BY <1>3, <1>8 DEF OwedOnDisk, SavedIsNotLost
<1> QED
  BY <1>4, <1>5, <1>6, <1>7, <1>9

(* Every step of the host is one of these. *)
LEMMA HostKeeps ==
  ASSUME StoreInv, Host
  PROVE  StoreInv'
<1>1. PICK n \in Projects : \E i \in Running(n) :
        \/ CompareRevision(n, i) \/ WriteTemporary(n, i)
        \/ RenameTemporary(n, i) \/ SyncDirectory(n, i)
  BY DEF Host
<1>2. StoreTypeOK /\ UNCHANGED editor
  BY DEF StoreInv, Host
<1>3. /\ pending[n] # <<>> /\ pending[n][1] \in Writes
      /\ \/ CompareRevision(n, 1) \/ WriteTemporary(n, 1)
         \/ RenameTemporary(n, 1) \/ SyncDirectory(n, 1)
  BY <1>1, <1>2, FirstWrite
<1>4. CASE CompareRevision(n, 1)
  BY <1>2, <1>3, <1>4, CompareKeeps, FailedKeeps DEF CompareRevision
<1>5. CASE WriteTemporary(n, 1)
  BY <1>2, <1>3, <1>5, WriteKeeps, FailedKeeps DEF WriteTemporary
<1>6. CASE RenameTemporary(n, 1)
  BY <1>2, <1>3, <1>6, RenameKeeps, FailedKeeps DEF RenameTemporary
<1>7. CASE SyncDirectory(n, 1)
  BY <1>2, <1>3, <1>7, SyncKeeps, FailedKeeps DEF SyncDirectory
<1> QED
  BY <1>3, <1>4, <1>5, <1>6, <1>7

-----------------------------------------------------------------------------
(* The steps of the editors and of others                                  *)

(* A save goes to the end of its queue. *)
LEMMA SaveKeeps ==
  ASSUME StoreInv, NEW e \in Editors, NEW n \in Projects, NEW document \in Documents,
         SaveProject(e, n, document)
  PROVE  StoreInv'
<1> DEFINE w == [by |-> e, expected |-> editor[e].revision, document |-> document, at |-> "queued"]
<1> USE DEF StoreInv
<1>1. w \in Writes /\ w.at = "queued"
  BY DEF StoreTypeOK, Writes, EditorStates
<1>2. pending[n] \in Seq(Writes) /\ pending \in [Projects -> Seq(Writes)]
  BY DEF StoreTypeOK
<1>3. /\ pending'[n] = Append(pending[n], w)
      /\ pending' = [pending EXCEPT ![n] = Append(pending[n], w)]
      /\ \A m \in Projects : m # n => pending'[m] = pending[m]
  BY <1>2 DEF SaveProject
<1> HIDE DEF w
<1>4. /\ pending'[n] \in Seq(Writes) /\ Len(pending'[n]) = Len(pending[n]) + 1
      /\ \A j \in 1 .. Len(pending[n]) : pending'[n][j] = pending[n][j]
      /\ pending'[n][Len(pending[n]) + 1] = w
  BY <1>1, <1>2, <1>3, AppendProperties
<1>5. /\ Len(pending[n]) \in Nat /\ DOMAIN pending[n] = 1 .. Len(pending[n])
      /\ DOMAIN pending'[n] = 1 .. Len(pending[n]) + 1
  BY <1>2, <1>4, LenProperties
<1>6. pending[n] = <<>> => pending'[n][1].at = "queued"
  BY <1>1, <1>4, EmptySeq
<1>7. pending[n] # <<>> => pending'[n][1] = pending[n][1]
  BY <1>2, <1>4, <1>5, EmptySeq
<1>8. StoreTypeOK'
  <2>1. pending' \in [Projects -> Seq(Writes)]
    BY <1>2, <1>3, <1>4
  <2>2. editor' \in [Editors -> EditorStates]
    BY DEF SaveProject, StoreTypeOK, EditorStates
  <2> QED
    BY <2>1, <2>2 DEF SaveProject, StoreTypeOK
<1>9. FirstRuns'
  <2>1. \A j \in DOMAIN pending'[n] : j # 1 => pending'[n][j].at = "queued"
    BY <1>1, <1>4, <1>5 DEF FirstRuns
  <2> QED
    BY <1>3, <2>1 DEF FirstRuns
<1>10. Compared'
  BY <1>3, <1>6, <1>7 DEF Compared, SaveProject
<1>11. Renamed'
  BY <1>3, <1>6, <1>7 DEF Renamed, SaveProject
<1>12. OwedOnDisk' /\ SavedIsNotLost'
  BY DEF OwedOnDisk, SavedIsNotLost, SaveProject
<1> QED
  BY <1>8, <1>9, <1>10, <1>11, <1>12

(* Opening, importing and taking a reply leave the store alone. *)
LEMMA EditorKeeps ==
  ASSUME StoreInv, editor' \in [Editors -> EditorStates], replies' \subseteq Replies,
         UNCHANGED <<project, disk, pending, owed>>
  PROVE  StoreInv'
BY DEF StoreInv, StoreTypeOK, FirstRuns, Compared, Renamed, OwedOnDisk, SavedIsNotLost

(* Each action keeps the invariant; opening a project first.               *)
LEMMA OpenKeeps ==
  ASSUME StoreInv, NEW e \in Editors, NEW n \in Projects, OpenProject(e, n)
  PROVE  StoreInv'
<1>1. StoreTypeOK
  BY DEF StoreInv
<1>2. replies' \subseteq Replies
  BY <1>1 DEF OpenProject, StoreTypeOK, Replies
<1>3. editor' \in [Editors -> EditorStates]
  BY <1>1 DEF OpenProject, Request, StoreTypeOK
<1> QED
  BY <1>2, <1>3, EditorKeeps DEF OpenProject

(* An imported document is not one of the host's projects.                   *)
LEMMA ImportKeeps ==
  ASSUME StoreInv, NEW e \in Editors, ImportProject(e)
  PROVE  StoreInv'
<1>1. StoreTypeOK
  BY DEF StoreInv
<1>2. editor' \in [Editors -> EditorStates]
  BY <1>1 DEF ImportProject, StoreTypeOK, EditorStates, NewEditor, Contents
<1>3. replies' \subseteq Replies
  BY <1>1 DEF ImportProject, StoreTypeOK
<1> QED
  BY <1>2, <1>3, EditorKeeps DEF ImportProject

(* An editor takes a reply of the host.                                    *)
LEMMA TakeKeeps ==
  ASSUME StoreInv, NEW r \in replies, TakeReply(r)
  PROVE  StoreInv'
<1>1. StoreTypeOK /\ r \in Replies
  BY DEF StoreInv, StoreTypeOK
<1>2. /\ r.to \in Editors /\ r.name \in Projects /\ r.revision \in Contents
      /\ r.about \in {"open", "saved", "failed"} /\ editor[r.to] \in EditorStates
  BY <1>1 DEF StoreTypeOK, Replies
<1>3. CASE r.about = "open"
  <2>1. [editor[r.to] EXCEPT !.shown = r.name, !.hosted = r.name, !.revision = r.revision]
          \in EditorStates
    BY <1>2 DEF EditorStates
  <2>2. editor' \in [Editors -> EditorStates]
    BY <1>1, <1>2, <1>3, <2>1 DEF TakeReply, StoreTypeOK
  <2> QED
    BY <1>1, <2>2, EditorKeeps DEF TakeReply, StoreTypeOK
<1>4. CASE r.about = "saved"
  <2>1. [editor[r.to] EXCEPT !.hosted = r.name, !.revision = r.revision, !.saving = FALSE]
          \in EditorStates
    BY <1>2 DEF EditorStates
  <2>2. editor' \in [Editors -> EditorStates]
    BY <1>1, <1>2, <1>4, <2>1 DEF TakeReply, StoreTypeOK
  <2> QED
    BY <1>1, <2>2, EditorKeeps DEF TakeReply, StoreTypeOK
<1>5. CASE r.about = "failed"
  <2>1. [editor[r.to] EXCEPT !.saving = FALSE] \in EditorStates
    BY <1>2 DEF EditorStates
  <2>2. editor' \in [Editors -> EditorStates]
    BY <1>1, <1>2, <1>5, <2>1 DEF TakeReply, StoreTypeOK
  <2> QED
    BY <1>1, <2>2, EditorKeeps DEF TakeReply, StoreTypeOK
<1> QED
  BY <1>2, <1>3, <1>4, <1>5

(* Others owe nobody what they overwrite; a write that was renamed before  *)
(* no longer answers for the file.                                         *)
LEMMA OthersKeep ==
  ASSUME StoreInv, NEW n \in Projects, NEW document \in Contents, OthersWrite(n, document)
  PROVE  StoreInv'
<1> USE DEF StoreInv
<1>1. pending[n] \in Seq(Writes) /\ pending \in [Projects -> Seq(Writes)]
  BY DEF StoreTypeOK
<1> DEFINE replaced == [i \in DOMAIN pending[n] |->
                          IF pending[n][i].at = "renamed" THEN Advanced(pending[n][i], "replaced")
                                                          ELSE pending[n][i]]
<1>2. pending' = [pending EXCEPT ![n] = replaced]
  BY DEF OthersWrite
<1>3. /\ DOMAIN pending[n] = 1 .. Len(pending[n]) /\ Len(pending[n]) \in Nat
      /\ \A i \in DOMAIN pending[n] : pending[n][i] \in Writes
  BY <1>1, LenProperties, ElementOfSeq
<1>4. \A i \in DOMAIN pending[n] : replaced[i] \in Writes
  BY <1>3, AdvancedWrite
<1>5. replaced \in Seq(Writes)
  <2>1. replaced = [i \in 1 .. Len(pending[n]) |-> replaced[i]]
    BY <1>3
  <2> HIDE DEF replaced
  <2>2. [i \in 1 .. Len(pending[n]) |-> replaced[i]] \in Seq(Writes)
    BY <1>3, <1>4, IsASeq
  <2> QED
    BY <2>1, <2>2
<1>6. pending[n] # <<>> <=> 1 \in DOMAIN pending[n]
  BY <1>1, <1>3, EmptySeq
<1>7. replaced # <<>> => 1 \in DOMAIN pending[n]
  <2>1. replaced # <<>> => 1 \in DOMAIN replaced
    <3> HIDE DEF replaced
    <3> QED
      BY <1>5, EmptySeq, LenProperties
  <2> QED
    BY <2>1
<1>8. \A i \in DOMAIN pending[n] :
        /\ replaced[i].at = IF pending[n][i].at = "renamed" THEN "replaced" ELSE pending[n][i].at
        /\ replaced[i].expected = pending[n][i].expected
  BY <1>3, AdvancedWrite
<1>9. /\ pending'[n] = replaced /\ DOMAIN pending'[n] = DOMAIN pending[n]
      /\ \A m \in Projects : m # n => pending'[m] = pending[m]
  BY <1>1, <1>2
<1>10. /\ owed'[n] = NotOwed
       /\ \A m \in Projects : m # n => owed'[m] = owed[m] /\ project'[m] = project[m]
                                       /\ disk'[m] = disk[m]
  BY DEF OthersWrite, StoreTypeOK
<1> HIDE DEF replaced
<1>11. StoreTypeOK'
  <2>1. pending' \in [Projects -> Seq(Writes)]
    BY <1>1, <1>2, <1>5
  <2> QED
    BY <2>1 DEF StoreTypeOK, OthersWrite, Contents
<1>12. FirstRuns'
  BY <1>8, <1>9 DEF FirstRuns
<1>13. Compared'
  BY <1>9, <1>10 DEF Compared
<1>14. Renamed'
  BY <1>7, <1>8, <1>9, <1>10 DEF Renamed
<1>15. OwedOnDisk' /\ SavedIsNotLost'
  BY <1>10 DEF OwedOnDisk, SavedIsNotLost
<1> QED
  BY <1>11, <1>12, <1>13, <1>14, <1>15

(* The end of the host finds what is owed in the file and on the disk. *)
LEMMA EndKeeps ==
  ASSUME StoreInv, HostEnds
  PROVE  StoreInv'
<1> USE DEF StoreInv
<1>1. \A n \in Projects : project'[n] \in {project[n], disk[n]} /\ disk'[n] = project'[n]
                          /\ pending'[n] = <<>>
  BY DEF HostEnds
<1>2. StoreTypeOK'
  <2>1. pending' \in [Projects -> Seq(Writes)]
    BY EmptySeq DEF HostEnds
  <2>2. editor' \in [Editors -> EditorStates]
    BY DEF HostEnds, StoreTypeOK, EditorStates
  <2>3. project' \in [Projects -> Contents] /\ disk' \in [Projects -> Contents]
    BY DEF HostEnds, StoreTypeOK
  <2> QED
    BY <2>1, <2>2, <2>3 DEF HostEnds, StoreTypeOK
<1>3. FirstRuns'
  BY <1>1 DEF FirstRuns
<1>4. Compared' /\ Renamed'
  BY <1>1 DEF Compared, Renamed
<1>5. OwedOnDisk' /\ SavedIsNotLost'
  BY <1>1 DEF OwedOnDisk, SavedIsNotLost, HostEnds
<1> QED
  BY <1>2, <1>3, <1>4, <1>5

-----------------------------------------------------------------------------
(* The invariant holds at first. *)
LEMMA StoreStarts == StoreInit => StoreInv
<1> SUFFICES ASSUME StoreInit PROVE StoreInv
  OBVIOUS
<1>1. \A n \in Projects : pending[n] = <<>> /\ owed[n] = NotOwed
  BY DEF StoreInit
<1>2. StoreTypeOK
  BY EmptySeq DEF StoreInit, StoreTypeOK, NewEditor, EditorStates, Contents, Replies
<1> QED
  BY <1>1, <1>2 DEF StoreInv, FirstRuns, Compared, Renamed, OwedOnDisk, SavedIsNotLost

(* The invariant behind the store (project-store.mjs): every step keeps it. *)
THEOREM StoreInvariant == StoreSpec => []StoreInv
<1>1. StoreInv /\ [StoreNext]_storeVars => StoreInv'
  <2> SUFFICES ASSUME StoreInv, [StoreNext]_storeVars PROVE StoreInv'
    OBVIOUS
  <2>1. CASE Host
    BY <2>1, HostKeeps
  <2>2. ASSUME NEW e \in Editors, NEW n \in Projects,
               OpenProject(e, n) \/ \E document \in Documents : SaveProject(e, n, document)
        PROVE  StoreInv'
    BY <2>2, OpenKeeps, SaveKeeps
  <2>3. ASSUME NEW e \in Editors, ImportProject(e) PROVE StoreInv'
    BY <2>3, ImportKeeps
  <2>4. ASSUME NEW r \in replies, TakeReply(r) PROVE StoreInv'
    BY <2>4, TakeKeeps
  <2>5. ASSUME NEW n \in Projects, NEW document \in Documents \cup {Absent},
               OthersWrite(n, document)
        PROVE  StoreInv'
    BY <2>5, OthersKeep DEF Contents
  <2>6. CASE HostEnds
    BY <2>6, EndKeeps
  <2>7. CASE UNCHANGED storeVars
    BY <2>7 DEF storeVars, StoreInv, StoreTypeOK, FirstRuns, Compared, Renamed, OwedOnDisk,
                SavedIsNotLost
  <2> QED
    BY <2>1, <2>2, <2>3, <2>4, <2>5, <2>6, <2>7 DEF StoreNext
<1> QED
  BY StoreStarts, <1>1, PTL DEF StoreSpec

(* What was reported as saved stays until somebody replaces it who has     *)
(* seen it or does not use the host (writeExclusive, write, syncDirectory) *)
(* -- for any number of editors and projects and any length of the queues. *)
THEOREM NoSaveIsLost == StoreSpec => []SavedIsNotLost
BY StoreInvariant, PTL DEF StoreInv

(* Every set of naturals has a smallest element. *)
LEMMA SmallestNumber ==
  ASSUME NEW T, T \subseteq Nat, T # {}
  PROVE  \E n \in T : \A m \in T : n <= m
<1> DEFINE R == OpToRel(<, Nat)
<1>1. IsWellFoundedOn(R, Nat)
  BY NatLessThanWellFounded
<1>2. \A m, n \in Nat : m < n => <<m, n>> \in R
  BY DEF OpToRel
<1> HIDE DEF R
<1>3. PICK n \in T : \A m \in T : ~ (<<m, n>> \in R)
  BY <1>1, WFMin
<1>4. \A m \in T : ~ (m < n)
  BY <1>2, <1>3
<1> QED
  BY <1>4

-----------------------------------------------------------------------------
(* The preflight of audio formats                                          *)

(* The rounds of the preflight as a chain of steps.                        *)
RoundEnds(after) == [after EXCEPT !.accepted = ~ after.refused /\ ~ after.changed]
OneMore(app, s) == IF s.accepted \/ s.refused THEN s ELSE OneRound(app, s)
AsDeclared(app) ==
  LET declared == Declarations(app)
  IN [format |-> declared, changed |-> FALSE, accepted |-> FALSE,
      refused |-> \E e \in DOMAIN declared : declared[e] > app[e[1]].room]

(* What a round hands to the next, and what it may do to the formats.      *)
Verdict(s) == /\ DOMAIN s = {"format", "changed", "accepted", "refused"}
              /\ s.changed \in BOOLEAN /\ s.refused \in BOOLEAN /\ s.accepted \in BOOLEAN
Agree(format, x, y) == format[x] # Undeclared => format[y] = format[x]
KeepsValues(old, new) ==
  /\ DOMAIN new = DOMAIN old
  /\ \A e \in DOMAIN old : old[e] # Undeclared => new[e] = old[e]
Untouched(s, t) == ~ s.changed /\ ~ s.refused /\ t.format = s.format

(* What holds at a module that a round left alone.                         *)
SettledAt(app, format, m) ==
  /\ Routed(app, m) => ~ TooNarrow(app, m) /\ Agree(format, Out(app[m].from), In(m))
  /\ app[m].keeps => Agree(format, In(m), Out(m))

(* Merging overwrites no value, and what it leaves alone agreed before.    *)
LEMMA MergeStep ==
  ASSUME NEW s, Verdict(s), NEW x, NEW y
  PROVE  LET t == MergeFormat(s, x, y) IN
         /\ Verdict(t) /\ t.accepted = s.accepted /\ KeepsValues(s.format, t.format)
         /\ s.refused => t.refused
         /\ ~ t.changed /\ ~ t.refused => Untouched(s, t) /\ Agree(s.format, x, y)
<1> DEFINE t == MergeFormat(s, x, y)
<1>1. CASE s.refused \/ s.format[x] = Undeclared
  <2>1. t = s
    BY <1>1 DEF MergeFormat
  <2> HIDE DEF t
  <2> QED
    BY <1>1, <2>1 DEF KeepsValues, Untouched, Agree, t
<1>2. CASE ~ (s.refused \/ s.format[x] = Undeclared) /\ s.format[y] = Undeclared
  <2>1. t = [s EXCEPT !.format[y] = s.format[x], !.changed = TRUE]
    BY <1>2 DEF MergeFormat
  <2> HIDE DEF t
  <2>2. /\ DOMAIN t = DOMAIN s /\ t.changed = TRUE /\ t.refused = s.refused /\ t.accepted = s.accepted
        /\ t.format = [s.format EXCEPT ![y] = s.format[x]]
    BY <2>1 DEF Verdict
  <2>3. KeepsValues(s.format, t.format)
    BY <1>2, <2>2 DEF KeepsValues
  <2> QED
    BY <2>2, <2>3 DEF Verdict, t
<1>3. CASE ~ (s.refused \/ s.format[x] = Undeclared) /\ s.format[y] # Undeclared
  <2>1. t = [s EXCEPT !.refused = s.format[x] # s.format[y]]
    BY <1>3 DEF MergeFormat
  <2> HIDE DEF t
  <2>2. /\ DOMAIN t = DOMAIN s /\ t.changed = s.changed /\ t.accepted = s.accepted /\ t.format = s.format
        /\ t.refused = (s.format[x] # s.format[y])
    BY <2>1 DEF Verdict
  <2> QED
    BY <1>3, <2>2 DEF Verdict, KeepsValues, Untouched, Agree, t
<1> QED
  BY <1>1, <1>2, <1>3

(* Keeping the values that are known goes on from one state to the next.   *)
LEMMA KeepsOn ==
  ASSUME NEW a, NEW b, NEW c, KeepsValues(a, b), KeepsValues(b, c)
  PROVE  KeepsValues(a, c)
BY DEF KeepsValues

(* A visit of a module overwrites no value, and what it leaves alone was   *)
(* settled there before.                                                   *)
LEMMA VisitStep ==
  ASSUME NEW app, NEW s, Verdict(s), NEW m
  PROVE  LET t == Visit(app, s, m) IN
         /\ Verdict(t) /\ t.accepted = s.accepted /\ KeepsValues(s.format, t.format)
         /\ s.refused => t.refused
         /\ ~ t.changed /\ ~ t.refused => Untouched(s, t) /\ SettledAt(app, s.format, m)
<1> DEFINE arrived == CASE ~ Routed(app, m) -> s
                        [] Routed(app, m) /\ TooNarrow(app, m) -> [s EXCEPT !.refused = TRUE]
                        [] OTHER -> MergeFormat(s, Out(app[m].from), In(m))
           t == Visit(app, s, m)
<1>1. t = IF app[m].keeps THEN MergeFormat(arrived, In(m), Out(m)) ELSE arrived
  BY DEF Visit
<1> HIDE DEF t
<1>2. /\ Verdict(arrived) /\ arrived.accepted = s.accepted /\ KeepsValues(s.format, arrived.format)
      /\ s.refused => arrived.refused
      /\ ~ arrived.changed /\ ~ arrived.refused =>
           /\ Untouched(s, arrived)
           /\ Routed(app, m) => ~ TooNarrow(app, m) /\ Agree(s.format, Out(app[m].from), In(m))
  <2>1. CASE ~ Routed(app, m)
    <3>1. arrived = s
      BY <2>1
    <3> HIDE DEF arrived
    <3> QED
      BY <2>1, <3>1 DEF KeepsValues, Untouched
  <2>2. CASE Routed(app, m) /\ TooNarrow(app, m)
    <3>1. arrived = [s EXCEPT !.refused = TRUE]
      BY <2>2
    <3> HIDE DEF arrived
    <3>2. /\ DOMAIN arrived = DOMAIN s /\ arrived.refused = TRUE /\ arrived.changed = s.changed
          /\ arrived.accepted = s.accepted /\ arrived.format = s.format
      BY <3>1 DEF Verdict
    <3> QED
      BY <3>2 DEF Verdict, KeepsValues
  <2>3. CASE Routed(app, m) /\ ~ TooNarrow(app, m)
    <3>1. arrived = MergeFormat(s, Out(app[m].from), In(m))
      BY <2>3
    <3> HIDE DEF arrived
    <3> QED
      BY <2>3, <3>1, MergeStep
  <2> QED
    BY <2>1, <2>2, <2>3
<1> HIDE DEF arrived
<1>3. CASE app[m].keeps
  <2> DEFINE u == MergeFormat(arrived, In(m), Out(m))
  <2>1. /\ Verdict(u) /\ u.accepted = arrived.accepted /\ KeepsValues(arrived.format, u.format)
        /\ arrived.refused => u.refused
        /\ ~ u.changed /\ ~ u.refused => Untouched(arrived, u) /\ Agree(arrived.format, In(m), Out(m))
    BY <1>2, MergeStep
  <2>2. t = u
    BY <1>1, <1>3
  <2> HIDE DEF u
  <2>3. KeepsValues(s.format, t.format)
    BY <1>2, <2>1, <2>2, KeepsOn
  <2>4. Verdict(t) /\ t.accepted = s.accepted /\ (s.refused => t.refused)
    BY <1>2, <2>1, <2>2
  <2>5. ASSUME ~ t.changed, ~ t.refused
        PROVE  Untouched(s, t) /\ SettledAt(app, s.format, m)
    <3>1. Untouched(arrived, t) /\ Agree(arrived.format, In(m), Out(m))
      BY <2>1, <2>2, <2>5
    <3>2. Untouched(s, arrived)
          /\ (Routed(app, m) => ~ TooNarrow(app, m) /\ Agree(s.format, Out(app[m].from), In(m)))
      BY <1>2, <3>1 DEF Untouched
    <3>3. arrived.format = s.format
      BY <3>2 DEF Untouched
    <3> QED
      BY <3>1, <3>2, <3>3 DEF Untouched, SettledAt
  <2> QED
    BY <2>3, <2>4, <2>5 DEF t
<1>4. CASE ~ app[m].keeps
  <2>1. t = arrived
    BY <1>1, <1>4
  <2> QED
    BY <1>2, <1>4, <2>1 DEF SettledAt, t
<1> QED
  BY <1>3, <1>4

(* A round visits one module after the other.                              *)
LEMMA VisitsInOrder ==
  ASSUME NEW S, NEW app \in Seq(S), NEW before
  PROVE  \E g : /\ g[0] = [before EXCEPT !.changed = FALSE]
                /\ \A k \in 1 .. Len(app) : g[k] = Visit(app, g[k - 1], k)
                /\ OneRound(app, before) = RoundEnds(g[Len(app)])
<1> DEFINE q == [m \in DOMAIN app |-> m]
           n == Len(app)
           Then(f, s) == IF s = {} THEN [before EXCEPT !.changed = FALSE]
                         ELSE Visit(app, f[s \ {Max(s)}], q[Max(s)])
           Folds(D, f) == f = [s \in SUBSET D |-> Then(f, s)]
           bad == {m \in Nat : ~ \E f : Folds(1 .. m, f)}
<1>1. n \in Nat /\ DOMAIN q = 1 .. n /\ \A k \in 1 .. n : q[k] = k
  BY LenProperties
<1>2. \E f : Folds(1 .. 0, f)
  <2> DEFINE f == [s \in SUBSET (1 .. 0) |-> [before EXCEPT !.changed = FALSE]]
  <2>1. \A s \in SUBSET (1 .. 0) : Then(f, s) = [before EXCEPT !.changed = FALSE]
    OBVIOUS
  <2>2. Folds(1 .. 0, f)
    BY <2>1
  <2> QED
    BY <2>2
<1>3. ASSUME NEW m \in Nat, NEW f, Folds(1 .. m, f)
      PROVE  \E h : Folds(1 .. m + 1, h)
  <2> DEFINE h == [s \in SUBSET (1 .. m + 1) |->
                     IF m + 1 \in s THEN Visit(app, f[s \ {m + 1}], q[m + 1]) ELSE f[s]]
  <2> HIDE DEF q
  <2>1. ASSUME NEW s \in SUBSET (1 .. m + 1)
        PROVE  h[s] = Then(h, s)
    <3>1. CASE m + 1 \in s
      <4>1. Max(s) = m + 1
        <5>1. \A y \in s : m + 1 >= y
          OBVIOUS
        <5>2. \A x \in s : (\A y \in s : x >= y) => x = m + 1
          BY <3>1, <5>1
        <5> QED
          BY <3>1, <5>1, <5>2 DEF Max
      <4>2. s \ {m + 1} \in SUBSET (1 .. m) /\ s \ {m + 1} \in SUBSET (1 .. m + 1)
        OBVIOUS
      <4>3. h[s \ {m + 1}] = f[s \ {m + 1}]
        BY <4>2
      <4>4. h[s] = Visit(app, f[s \ {m + 1}], q[m + 1])
        BY <3>1
      <4> HIDE DEF h
      <4> QED
        BY <3>1, <4>1, <4>3, <4>4
    <3>2. CASE m + 1 \notin s
      <4>1. s \in SUBSET (1 .. m)
        BY <3>2
      <4>2. h[s] = f[s] /\ h[s \ {Max(s)}] = f[s \ {Max(s)}]
        BY <3>2
      <4>3. f[s] = Then(f, s)
        BY <1>3, <4>1
      <4> HIDE DEF h
      <4> QED
        BY <4>2, <4>3
    <3> QED
      BY <3>1, <3>2
  <2>2. Folds(1 .. m + 1, h)
    <3>1. h = [s \in SUBSET (1 .. m + 1) |-> h[s]]
      OBVIOUS
    <3> HIDE DEF h, Then
    <3> QED
      BY <2>1, <3>1
  <2> QED
    BY <2>2
<1>4. \E f : Folds(DOMAIN q, f)
  <2> HIDE DEF Folds, n, q
  <2>1. SUFFICES ASSUME n \in bad PROVE FALSE
    BY <1>1
  <2>2. PICK m \in bad : \A k \in bad : m <= k
    BY <2>1, SmallestNumber
  <2>3. m # 0 /\ m \in Nat
    BY <1>2, <2>2
  <2>4. m - 1 \in Nat /\ m - 1 \notin bad
    BY <2>2, <2>3
  <2>5. PICK f : Folds(1 .. m - 1, f)
    BY <2>4
  <2>6. \E h : Folds(1 .. m - 1 + 1, h)
    BY <1>3, <2>4, <2>5
  <2>7. m - 1 + 1 = m
    BY <2>3
  <2> QED
    BY <2>2, <2>6, <2>7
<1> DEFINE f == CHOOSE f : Folds(DOMAIN q, f)
<1>5. Folds(DOMAIN q, f)
  BY <1>4
<1>6. OneRound(app, before) = RoundEnds(f[DOMAIN q])
  BY Zenon DEF OneRound, RoundEnds, FoldLeft, MapThenFoldSet
<1> HIDE DEF f
<1> DEFINE g == [k \in 0 .. n |-> f[1 .. k]]
<1>7. g[0] = [before EXCEPT !.changed = FALSE]
  <2>1. 1 .. 0 = {} /\ {} \in SUBSET (DOMAIN q)
    OBVIOUS
  <2>2. f[{}] = [before EXCEPT !.changed = FALSE]
    BY <1>5, <2>1
  <2> HIDE DEF n
  <2> QED
    BY <1>1, <2>1, <2>2
<1>8. ASSUME NEW k \in 1 .. n
      PROVE  g[k] = Visit(app, g[k - 1], k)
  <2> HIDE DEF n, Then, q
  <2>1. 1 .. k \in SUBSET (DOMAIN q) /\ k \in 1 .. k /\ (1 .. k) \ {k} = 1 .. k - 1
        /\ k - 1 \in 0 .. n /\ k \in 0 .. n
    BY <1>1
  <2>2. Max(1 .. k) = k
    <3>1. \A y \in 1 .. k : k >= y
      OBVIOUS
    <3>2. \A x \in 1 .. k : (\A y \in 1 .. k : x >= y) => x = k
      BY <1>1, <2>1
    <3> QED
      BY <2>1, <3>1, <3>2 DEF Max
  <2>3. f[1 .. k] = Then(f, 1 .. k)
    BY <1>5, <2>1
  <2>4. Then(f, 1 .. k) = Visit(app, f[1 .. k - 1], k)
    BY <1>1, <2>1, <2>2 DEF Then
  <2> QED
    BY <2>1, <2>3, <2>4
<1>9. g[n] = f[DOMAIN q]
  BY <1>1
<1> HIDE DEF g
<1> QED
  BY <1>6, <1>7, <1>8, <1>9

(* Rounds, until one of them accepts or refuses.                           *)
LEMMA RoundsInOrder ==
  ASSUME NEW app, Len(app) \in Nat
  PROVE  \E g : /\ g[0] = AsDeclared(app)
                /\ \A k \in 1 .. Len(app) + 1 : g[k] = OneMore(app, g[k - 1])
                /\ ValidateFormats(app) = g[Len(app) + 1]
<1> DEFINE q == [i \in 1 .. Len(app) + 1 |-> i]
           n == Len(app) + 1
           Then(f, s) == IF s = {} THEN AsDeclared(app)
                         ELSE OneMore(app, f[s \ {Max(s)}])
           Folds(D, f) == f = [s \in SUBSET D |-> Then(f, s)]
           bad == {m \in Nat : ~ \E f : Folds(1 .. m, f)}
<1>1. n \in Nat /\ DOMAIN q = 1 .. n /\ \A k \in 1 .. n : q[k] = k
  OBVIOUS
<1>2. \E f : Folds(1 .. 0, f)
  <2> DEFINE f == [s \in SUBSET (1 .. 0) |-> AsDeclared(app)]
  <2>1. \A s \in SUBSET (1 .. 0) : Then(f, s) = AsDeclared(app)
    OBVIOUS
  <2>2. Folds(1 .. 0, f)
    BY <2>1
  <2> QED
    BY <2>2
<1>3. ASSUME NEW m \in Nat, NEW f, Folds(1 .. m, f)
      PROVE  \E h : Folds(1 .. m + 1, h)
  <2> DEFINE h == [s \in SUBSET (1 .. m + 1) |->
                     IF m + 1 \in s THEN OneMore(app, f[s \ {m + 1}]) ELSE f[s]]
  <2> HIDE DEF q
  <2>1. ASSUME NEW s \in SUBSET (1 .. m + 1)
        PROVE  h[s] = Then(h, s)
    <3>1. CASE m + 1 \in s
      <4>1. Max(s) = m + 1
        <5>1. \A y \in s : m + 1 >= y
          OBVIOUS
        <5>2. \A x \in s : (\A y \in s : x >= y) => x = m + 1
          BY <3>1, <5>1
        <5> QED
          BY <3>1, <5>1, <5>2 DEF Max
      <4>2. s \ {m + 1} \in SUBSET (1 .. m) /\ s \ {m + 1} \in SUBSET (1 .. m + 1)
        OBVIOUS
      <4>3. h[s \ {m + 1}] = f[s \ {m + 1}]
        BY <4>2
      <4>4. h[s] = OneMore(app, f[s \ {m + 1}])
        BY <3>1
      <4> HIDE DEF h
      <4> QED
        BY <3>1, <4>1, <4>3, <4>4
    <3>2. CASE m + 1 \notin s
      <4>1. s \in SUBSET (1 .. m)
        BY <3>2
      <4>2. h[s] = f[s] /\ h[s \ {Max(s)}] = f[s \ {Max(s)}]
        BY <3>2
      <4>3. f[s] = Then(f, s)
        BY <1>3, <4>1
      <4> HIDE DEF h
      <4> QED
        BY <4>2, <4>3
    <3> QED
      BY <3>1, <3>2
  <2>2. Folds(1 .. m + 1, h)
    <3>1. h = [s \in SUBSET (1 .. m + 1) |-> h[s]]
      OBVIOUS
    <3> HIDE DEF h, Then
    <3> QED
      BY <2>1, <3>1
  <2> QED
    BY <2>2
<1>4. \E f : Folds(DOMAIN q, f)
  <2> HIDE DEF Folds, n, q
  <2>1. SUFFICES ASSUME n \in bad PROVE FALSE
    BY <1>1
  <2>2. PICK m \in bad : \A k \in bad : m <= k
    BY <2>1, SmallestNumber
  <2>3. m # 0 /\ m \in Nat
    BY <1>2, <2>2
  <2>4. m - 1 \in Nat /\ m - 1 \notin bad
    BY <2>2, <2>3
  <2>5. PICK f : Folds(1 .. m - 1, f)
    BY <2>4
  <2>6. \E h : Folds(1 .. m - 1 + 1, h)
    BY <1>3, <2>4, <2>5
  <2>7. m - 1 + 1 = m
    BY <2>3
  <2> QED
    BY <2>2, <2>6, <2>7
<1> DEFINE f == CHOOSE f : Folds(DOMAIN q, f)
<1>5. Folds(DOMAIN q, f)
  BY <1>4
<1>6. ValidateFormats(app) = f[DOMAIN q]
  BY Zenon DEF ValidateFormats, AsDeclared, OneMore, FoldLeft, MapThenFoldSet
<1> HIDE DEF f
<1> DEFINE g == [k \in 0 .. n |-> f[1 .. k]]
<1>7. g[0] = AsDeclared(app)
  <2>1. 1 .. 0 = {} /\ {} \in SUBSET (DOMAIN q)
    OBVIOUS
  <2>2. f[{}] = AsDeclared(app)
    BY <1>5, <2>1
  <2> HIDE DEF n
  <2> QED
    BY <1>1, <2>1, <2>2
<1>8. ASSUME NEW k \in 1 .. n
      PROVE  g[k] = OneMore(app, g[k - 1])
  <2> HIDE DEF n, Then, q
  <2>1. 1 .. k \in SUBSET (DOMAIN q) /\ k \in 1 .. k /\ (1 .. k) \ {k} = 1 .. k - 1
        /\ k - 1 \in 0 .. n /\ k \in 0 .. n
    BY <1>1
  <2>2. Max(1 .. k) = k
    <3>1. \A y \in 1 .. k : k >= y
      OBVIOUS
    <3>2. \A x \in 1 .. k : (\A y \in 1 .. k : x >= y) => x = k
      BY <1>1, <2>1
    <3> QED
      BY <2>1, <3>1, <3>2 DEF Max
  <2>3. f[1 .. k] = Then(f, 1 .. k)
    BY <1>5, <2>1
  <2>4. Then(f, 1 .. k) = OneMore(app, f[1 .. k - 1])
    BY <1>1, <2>1, <2>2 DEF Then
  <2> QED
    BY <2>1, <2>3, <2>4
<1>9. g[n] = f[DOMAIN q]
  BY <1>1
<1> HIDE DEF g
<1> QED
  BY <1>6, <1>7, <1>8, <1>9

(* A round that accepts has found every module settled, and left it so.    *)
LEMMA RoundStep ==
  ASSUME NEW S, NEW app \in Seq(S), NEW s, Verdict(s)
  PROVE  LET t == OneRound(app, s) IN
         /\ Verdict(t) /\ KeepsValues(s.format, t.format) /\ (s.refused => t.refused /\ ~ t.accepted)
         /\ t.accepted => ~ t.refused /\ \A m \in DOMAIN app : SettledAt(app, t.format, m)
<1> DEFINE n == Len(app)
           t == OneRound(app, s)
           start == [s EXCEPT !.changed = FALSE]
<1>1. n \in Nat /\ DOMAIN app = 1 .. n
  BY LenProperties
<1>2. PICK g : /\ g[0] = start
               /\ \A k \in 1 .. n : g[k] = Visit(app, g[k - 1], k)
               /\ t = RoundEnds(g[n])
  BY VisitsInOrder
<1>3. Verdict(start) /\ start.format = s.format /\ start.refused = s.refused
  BY DEF Verdict
<1> HIDE DEF n, t, start
<1> DEFINE Good(u) == Verdict(u) /\ KeepsValues(s.format, u.format) /\ (s.refused => u.refused)
           bad == {k \in 0 .. n : ~ Good(g[k])}
<1>4. Good(g[0])
  BY <1>2, <1>3 DEF KeepsValues
<1>5. \A k \in 1 .. n :
        Verdict(g[k - 1]) =>
          /\ Verdict(g[k]) /\ KeepsValues(g[k - 1].format, g[k].format) /\ (g[k - 1].refused => g[k].refused)
          /\ ~ g[k].changed /\ ~ g[k].refused => Untouched(g[k - 1], g[k]) /\ SettledAt(app, g[k - 1].format, k)
  <2> TAKE k \in 1 .. n
  <2> HAVE Verdict(g[k - 1])
  <2> DEFINE u == g[k - 1]
             v == Visit(app, u, k)
  <2>1. g[k] = v /\ Verdict(u)
    BY <1>2
  <2> HIDE DEF u
  <2>2. /\ Verdict(v) /\ KeepsValues(u.format, v.format) /\ (u.refused => v.refused)
        /\ ~ v.changed /\ ~ v.refused => Untouched(u, v) /\ SettledAt(app, u.format, k)
    BY <2>1, VisitStep
  <2> HIDE DEF v
  <2> QED
    BY <2>1, <2>2 DEF u
<1>6. \A k \in 0 .. n : Good(g[k])
  <2> SUFFICES ASSUME bad # {} PROVE FALSE
    OBVIOUS
  <2>1. bad \subseteq Nat
    BY <1>1
  <2> HIDE DEF Good
  <2>2. PICK k \in bad : \A m \in bad : k <= m
    BY <2>1, SmallestNumber
  <2>3. k \in 1 .. n /\ k - 1 \in 0 .. n
    BY <1>1, <1>4, <2>2
  <2>4. k - 1 \notin bad
    BY <2>1, <2>2, <2>3
  <2>5. Good(g[k - 1]) /\ ~ Good(g[k])
    BY <2>2, <2>3, <2>4
  <2>6. Good(g[k])
    BY <1>5, <2>3, <2>5, KeepsOn DEF Good
  <2> QED
    BY <2>5, <2>6
<1>7. n \in 0 .. n /\ Good(g[n])
  BY <1>1, <1>6
<1>8. /\ DOMAIN t = DOMAIN g[n] /\ t.format = g[n].format /\ t.refused = g[n].refused /\ t.changed = g[n].changed
      /\ t.accepted = (~ g[n].refused /\ ~ g[n].changed)
  BY <1>2, <1>7 DEF RoundEnds, Verdict
<1>9. Verdict(t) /\ KeepsValues(s.format, t.format) /\ (s.refused => t.refused /\ ~ t.accepted)
  BY <1>7, <1>8 DEF Verdict
<1>10. ASSUME t.accepted
       PROVE  ~ t.refused /\ \A m \in DOMAIN app : SettledAt(app, t.format, m)
  <2> DEFINE Same(k) == ~ g[k].changed /\ ~ g[k].refused /\ g[k].format = g[n].format
             off == {j \in 0 .. n : ~ Same(n - j)}
  <2>1. Same(n)
    BY <1>8, <1>10
  <2>2. \A j \in 0 .. n : Same(n - j)
    <3> SUFFICES ASSUME off # {} PROVE FALSE
      OBVIOUS
    <3>1. off \subseteq Nat
      BY <1>1
    <3> HIDE DEF Same
    <3>2. PICK j \in off : \A i \in off : j <= i
      BY <3>1, SmallestNumber
    <3>3. j # 0
      <4>1. n - 0 = n
        BY <1>1
      <4> QED
        BY <2>1, <3>2, <4>1
    <3>4. j \in 1 .. n /\ j - 1 \in 0 .. n /\ n - (j - 1) \in 1 .. n /\ n - (j - 1) - 1 = n - j /\ n - j \in 0 .. n
      BY <1>1, <3>1, <3>2, <3>3
    <3>5. j - 1 \notin off
      BY <3>1, <3>2, <3>4
    <3>6. Same(n - (j - 1))
      BY <3>4, <3>5
    <3> DEFINE k == n - (j - 1)
    <3>7. k \in 1 .. n /\ k - 1 = n - j /\ Same(k) /\ Verdict(g[k - 1])
      BY <1>6, <3>4, <3>6
    <3> HIDE DEF k
    <3>8. Untouched(g[k - 1], g[k])
      BY <1>5, <3>7 DEF Same
    <3>9. Same(n - j)
      BY <3>7, <3>8 DEF Same, Untouched
    <3> QED
      BY <3>2, <3>9
  <2>3. \A k \in 0 .. n : Same(k)
    <3> TAKE k \in 0 .. n
    <3>1. n - k \in 0 .. n /\ n - (n - k) = k
      BY <1>1
    <3> HIDE DEF Same
    <3> QED
      BY <2>2, <3>1
  <2>4. ASSUME NEW m \in 1 .. n
        PROVE  SettledAt(app, t.format, m)
    <3>1. m - 1 \in 0 .. n /\ m \in 0 .. n
      BY <1>1
    <3>2. Same(m) /\ Same(m - 1) /\ Verdict(g[m - 1])
      BY <1>6, <2>3, <3>1
    <3>3. SettledAt(app, g[m - 1].format, m)
      BY <1>5, <3>2
    <3> QED
      BY <1>8, <3>2, <3>3
  <2> QED
    BY <1>1, <1>8, <1>10, <2>4
<1> QED
  BY <1>9, <1>10 DEF t

(* For any application, in whatever order its modules are listed and       *)
(* however they are routed: when the preflight accepts, no producer        *)
(* outgrows its consumer, every value carried along a route or through a   *)
(* module is the value at its other end, what a module declared is what it *)
(* got, and fits.                                                          *)
THEOREM AcceptedFormatsAgree ==
  ASSUME NEW S, NEW app \in Seq(S), ValidateFormats(app).accepted
  PROVE  LET declared == Declarations(app)
             format == ValidateFormats(app).format
         IN /\ \A m \in DOMAIN app : ~ TooNarrow(app, m)
            /\ \A c \in Carries(app) : Agree(format, c[1], c[2])
            /\ \A e \in DOMAIN declared : /\ declared[e] # Undeclared => format[e] = declared[e]
                                          /\ ~ (declared[e] > app[e[1]].room)
<1> DEFINE declared == Declarations(app)
           result == ValidateFormats(app)
           n == Len(app) + 1
           large == \E e \in DOMAIN declared : declared[e] > app[e[1]].room
<1>1. n \in Nat /\ Len(app) \in Nat
  BY LenProperties
<1>2. PICK g : /\ g[0] = AsDeclared(app)
               /\ \A k \in 1 .. n : g[k] = OneMore(app, g[k - 1])
               /\ result = g[n]
  BY <1>1, RoundsInOrder
<1>3. AsDeclared(app) = [format |-> declared, changed |-> FALSE, accepted |-> FALSE, refused |-> large]
  BY DEF AsDeclared
<1>4. large \in BOOLEAN
  OBVIOUS
<1> HIDE DEF declared, result, n, large
<1> DEFINE Good(s) == /\ Verdict(s) /\ KeepsValues(declared, s.format) /\ (large => s.refused /\ ~ s.accepted)
                      /\ s.accepted => ~ s.refused /\ \A m \in DOMAIN app : SettledAt(app, s.format, m)
           bad == {k \in 0 .. n : ~ Good(g[k])}
<1>5. Good(g[0])
  BY <1>2, <1>3, <1>4 DEF Verdict, KeepsValues
<1>6. ASSUME NEW k \in 1 .. n, Good(g[k - 1])
      PROVE  Good(g[k])
  <2> DEFINE s == g[k - 1]
             t == OneRound(app, s)
  <2>1. Good(s) /\ g[k] = IF s.accepted \/ s.refused THEN s ELSE t
    BY <1>2, <1>6 DEF OneMore
  <2> HIDE DEF s
  <2>2. CASE s.accepted \/ s.refused
    BY <2>1, <2>2
  <2>3. CASE ~ (s.accepted \/ s.refused)
    <3>1. /\ Verdict(t) /\ KeepsValues(s.format, t.format) /\ (s.refused => t.refused /\ ~ t.accepted)
          /\ t.accepted => ~ t.refused /\ \A m \in DOMAIN app : SettledAt(app, t.format, m)
      BY <2>1, RoundStep
    <3>2. g[k] = t
      BY <2>1, <2>3
    <3> HIDE DEF t
    <3>3. KeepsValues(declared, t.format) /\ ~ large
      BY <2>1, <2>3, <3>1, KeepsOn
    <3> QED
      BY <3>1, <3>2, <3>3
  <2> QED
    BY <2>2, <2>3
<1> HIDE DEF Good
<1>7. Good(g[n])
  <2> SUFFICES ASSUME ~ Good(g[n]) PROVE FALSE
    OBVIOUS
  <2>1. bad \subseteq Nat /\ n \in bad
    BY <1>1
  <2>2. PICK k \in bad : \A m \in bad : k <= m
    BY <2>1, SmallestNumber
  <2>3. k \in 1 .. n /\ k - 1 \in 0 .. n
    BY <1>1, <1>5, <2>1, <2>2
  <2>4. k - 1 \notin bad
    BY <2>1, <2>2, <2>3
  <2> QED
    BY <1>6, <2>2, <2>3, <2>4
<1>8. /\ KeepsValues(declared, result.format) /\ ~ large
      /\ \A m \in DOMAIN app : SettledAt(app, result.format, m)
  BY <1>2, <1>7 DEF Good, result
<1>9. \A m \in DOMAIN app : ~ TooNarrow(app, m)
  BY <1>8 DEF SettledAt, TooNarrow
<1>10. \A c \in Carries(app) : Agree(result.format, c[1], c[2])
  <2> TAKE c \in Carries(app)
  <2>1. CASE \E m \in DOMAIN app : Routed(app, m) /\ c = <<Out(app[m].from), In(m)>>
    BY <1>8, <2>1 DEF SettledAt
  <2>2. CASE \E m \in DOMAIN app : app[m].keeps /\ c = <<In(m), Out(m)>>
    BY <1>8, <2>2 DEF SettledAt
  <2> QED
    BY <2>1, <2>2 DEF Carries
<1>11. \A e \in DOMAIN declared : /\ declared[e] # Undeclared => result.format[e] = declared[e]
                                  /\ ~ (declared[e] > app[e[1]].room)
  BY <1>8 DEF KeepsValues, large
<1> QED
  BY <1>9, <1>10, <1>11 DEF declared, result
=============================================================================
