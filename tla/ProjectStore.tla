---------------------------- MODULE ProjectStore ----------------------------
(***************************************************************************)
(* How the application designer saves a project: the store of the host     *)
(* (tools/application-designer/host/project-store.mjs), the requests that  *)
(* reach it (host/server.mjs) and the editors in front of it (src/App.tsx, *)
(* src/project-api.ts).                                                    *)
(*                                                                         *)
(* Every await of the host is a point where another request, somebody else *)
(* who writes the file, or the end of the host comes in between.  A        *)
(* project is the file that a reader sees, disk what a power failure       *)
(* leaves of it; a document is a small number, and so is its revision, a   *)
(* hash of its text.  The store's directory exists and is durable: that    *)
(* the parent of one which writeExclusive's mkdir has just made is never   *)
(* synchronized is left out.                                               *)
(***************************************************************************)
EXTENDS Integers, Sequences, SequencesExt, FiniteSets

CONSTANTS
  Projects,     \* project names
  Editors,      \* browser windows
  Documents,    \* contents of a project
  MaxRequests,  \* bound: opens and saves
  MaxAccidents  \* bound: files written by others, and ends of the host

Absent == 0
NotOwed == -1
ASSUME StoreAssumption ==
  /\ Documents \subseteq Nat \ {Absent} /\ Projects \subseteq Nat \ {0}
  /\ MaxRequests \in Nat /\ MaxAccidents \in Nat

VARIABLES
  project, disk,   \* of each project, its content
  pending,      \* pendingWrites: of each project, the writes in their order
  editor,       \* what it shows, hostedProject, saving
  replies,      \* on their way to the editors
  requests, accidents,
  owed          \* history: of each project, the last content reported as saved

storeVars == <<project, disk, pending, editor, replies, requests, accidents, owed>>

NewEditor == [shown |-> 0, hosted |-> 0, revision |-> Absent, saving |-> FALSE]
StoreInit ==
  /\ project = [n \in Projects |-> Absent] /\ disk = project
  /\ pending = [n \in Projects |-> <<>>]
  /\ editor = [e \in Editors |-> NewEditor] /\ replies = {}
  /\ requests = 0 /\ accidents = 0
  /\ owed = [n \in Projects |-> NotOwed]

Request == requests < MaxRequests /\ requests' = requests + 1
Accident == accidents < MaxAccidents /\ accidents' = accidents + 1

-----------------------------------------------------------------------------
(* ProjectStore.read: rename replaces the file as a whole, so does a read  *)
(* see it.  A file that is not there is an error the editor only shows.    *)
OpenProject(e, n) ==
  /\ Request /\ project[n] # Absent
  /\ replies' = replies \cup {[to |-> e, about |-> "open", name |-> n, revision |-> project[n]]}
  /\ UNCHANGED <<project, disk, pending, editor, accidents, owed>>

(* saveProject and write: under the name it was opened from, or a new one  *)
SaveProject(e, n, document) ==
  /\ Request /\ ~ editor[e].saving
  /\ editor[e].hosted \in {0, n}
  /\ editor' = [editor EXCEPT ![e].saving = TRUE]
  /\ pending' = [pending EXCEPT ![n] = Append(@,
       [by |-> e, expected |-> editor[e].revision, document |-> document, at |-> "queued"])]
  /\ UNCHANGED <<project, disk, replies, accidents, owed>>

-----------------------------------------------------------------------------
(* writeExclusive, of the first write of a name: the others wait for it.   *)
(* Mutant: two writes of a name run side by side.                          *)
M_Running(n) == DOMAIN pending[n]
Running(n) == {i \in DOMAIN pending[n] : i = 1}

Advanced(w, at) == [w EXCEPT !.at = at]
Step(n, i, at) == pending' = [pending EXCEPT ![n][i] = Advanced(@, at)]
Answer(n, i, about) ==
  /\ pending' = [pending EXCEPT ![n] = RemoveAt(@, i)]
  /\ replies' = replies \cup {[to |-> pending[n][i].by, about |-> about, name |-> n,
                               revision |-> pending[n][i].document]}

(* an invalid document, an unreadable file and another revision fail *)
CompareRevision(n, i) ==
  /\ pending[n][i].at = "queued"
  /\ \/ project[n] = pending[n][i].expected /\ Step(n, i, "compared") /\ UNCHANGED replies
     \/ Answer(n, i, "failed")
  /\ UNCHANGED <<project, disk, owed>>

(* the temporary file is written and synchronized, or removed again *)
WriteTemporary(n, i) ==
  /\ pending[n][i].at = "compared"
  /\ \/ Step(n, i, "written") /\ UNCHANGED replies
     \/ Answer(n, i, "failed")
  /\ UNCHANGED <<project, disk, owed>>

(* rename: whoever replaces a save has seen it *)
RenameTemporary(n, i) ==
  /\ pending[n][i].at = "written"
  /\ \/ /\ Step(n, i, "renamed") /\ UNCHANGED replies
        /\ project' = [project EXCEPT ![n] = pending[n][i].document]
        /\ owed' = [owed EXCEPT ![n] = IF @ = pending[n][i].expected THEN NotOwed ELSE @]
     \/ Answer(n, i, "failed") /\ UNCHANGED <<project, owed>>
  /\ UNCHANGED disk

(* syncDirectory: if it fails, so does the save, although the file changed *)
SyncDirectory(n, i) ==
  /\ pending[n][i].at \in {"renamed", "replaced"}
  /\ \/ /\ Answer(n, i, "saved")
        /\ disk' = [disk EXCEPT ![n] = project[n]]
        /\ owed' = [owed EXCEPT ![n] = IF pending[n][i].at = "renamed" THEN pending[n][i].document ELSE @]
     \/ Answer(n, i, "failed") /\ UNCHANGED <<disk, owed>>
  /\ UNCHANGED project

Host ==
  /\ \E n \in Projects : \E i \in Running(n) :
       CompareRevision(n, i) \/ WriteTemporary(n, i) \/ RenameTemporary(n, i) \/ SyncDirectory(n, i)
  /\ UNCHANGED <<editor, requests, accidents>>

-----------------------------------------------------------------------------
(* Replies overtake one another; the one to a save does not change what    *)
(* the editor shows.                                                       *)
TakeReply(r) ==
  /\ replies' = replies \ {r}
  /\ editor' = [editor EXCEPT ![r.to] =
       CASE r.about = "open" -> [@ EXCEPT !.shown = r.name, !.hosted = r.name, !.revision = r.revision]
         [] r.about = "saved" -> [@ EXCEPT !.hosted = r.name, !.revision = r.revision, !.saving = FALSE]
         [] r.about = "failed" -> [@ EXCEPT !.saving = FALSE]]
  /\ UNCHANGED <<project, disk, pending, requests, accidents, owed>>

(* An import, or the first catalog, starts a project that has no file.     *)
ImportProject(e) ==
  /\ Request /\ editor' = [editor EXCEPT ![e] = [NewEditor EXCEPT !.saving = editor[e].saving]]
  /\ UNCHANGED <<project, disk, pending, replies, accidents, owed>>

(* Somebody else writes or removes the file, between any two steps; a      *)
(* write that was renamed before is "replaced", which nobody observes.     *)
OthersWrite(n, document) ==
  /\ Accident /\ project[n] # document
  /\ project' = [project EXCEPT ![n] = document] /\ disk' = [disk EXCEPT ![n] = document]
  /\ owed' = [owed EXCEPT ![n] = NotOwed]
  /\ pending' = [pending EXCEPT ![n] =
       [i \in DOMAIN @ |-> IF @[i].at = "renamed" THEN Advanced(@[i], "replaced") ELSE @[i]]]
  /\ UNCHANGED <<editor, replies, requests>>

(* The host ends, with the power or without: what was renamed and not yet  *)
(* synchronized may be undone.  The editors see their requests fail.       *)
HostEnds ==
  /\ Accident
  /\ \E kept \in SUBSET Projects : project' = [n \in Projects |-> IF n \in kept THEN project[n] ELSE disk[n]]
  /\ disk' = project'
  /\ pending' = [n \in Projects |-> <<>>] /\ replies' = {}
  /\ editor' = [e \in Editors |-> [editor[e] EXCEPT !.saving = FALSE]]
  /\ UNCHANGED <<requests, owed>>

StoreNext ==
  \/ Host
  \/ \E e \in Editors, n \in Projects :
       OpenProject(e, n) \/ \E document \in Documents : SaveProject(e, n, document)
  \/ \E e \in Editors : ImportProject(e)
  \/ \E r \in replies : TakeReply(r)
  \/ \E n \in Projects, document \in Documents \cup {Absent} : OthersWrite(n, document)
  \/ HostEnds

StoreSpec == StoreInit /\ [][StoreNext]_storeVars

-----------------------------------------------------------------------------
(* What was reported as saved stays, through concurrent saves of other     *)
(* editors, failures and ends of the host, until somebody replaces it who  *)
(* has seen it or does not use the host.                                   *)
SavedIsNotLost == \A n \in Projects : owed[n] # NotOwed => project[n] = owed[n]
=============================================================================
