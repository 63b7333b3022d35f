--------------------------- MODULE DirectoryBrowsing ---------------------------
(***************************************************************************)
(* Browsing a media directory: the view (lvgl_directory_browser), the      *)
(* worker thread behind a one-request mailbox (directory_browser_worker)   *)
(* and the snapshots it takes of the file system (directory_browser).      *)
(*                                                                         *)
(* Two threads and the environment: the LVGL thread clicks and polls, the  *)
(* worker sleeps on wake_sequence_, files are replaced meanwhile.  One     *)
(* scan sees one state of the file system.  A path is a model value; what  *)
(* a node is (a file version, "dir", "link", "pipe", "absent") stands for  *)
(* lstat.  Names, permissions and path lengths are left out.               *)
(***************************************************************************)
EXTENDS Integers, Sequences, FiniteSets, SequencesExt

CONSTANTS
  Tree,            \* directory -> the nodes it may hold, in the order of their names
  Catalog,         \* the tracks the rekordbox library names, in order
  Library,         \* the entry of that library
  PageRows,        \* ROW_COUNT
  ScanLimit,       \* scan_limit_
  MaxBrowse,       \* bound on request IDs
  MaxFileChanges   \* bound on changes of the file system

ASSUME BrowseAssumption ==
  /\ PageRows \in Nat \ {0} /\ ScanLimit \in Nat /\ MaxBrowse \in Nat /\ MaxFileChanges \in Nat
  /\ "root" \in DOMAIN Tree /\ \A d \in DOMAIN Tree : Tree[d] \in Seq(Range(Tree[d]))
  /\ \A d \in DOMAIN Tree \ {"root"} : \E up \in DOMAIN Tree : d \in Range(Tree[up])
  /\ Catalog \in Seq(Range(Catalog))

VARIABLES
  node,            \* what lstat says of each path
  rootSame,        \* the root is the directory that was configured
  fileChanges,     \* how much of MaxFileChanges is used
  snapshot,        \* DirectoryBrowser: id, counter and entries of the snapshot
  configured,      \* configuration_error is NONE
  mailbox,         \* state_, kind_ and the request
  answer,          \* result_ or selection_result_
  wakeSeq,         \* wake_sequence_
  finder,          \* worker thread: pc and the wake sequence it observed
  stopFinder,      \* stop was requested
  view,            \* LvglDirectoryBrowser members
  uiStep,          \* LVGL thread: "ready", or "wake" inside submit
  handed           \* history: the last selection handed to the handler, with the label then

browseVars == <<node, rootSame, fileChanges, snapshot, configured, mailbox, answer, wakeSeq,
                finder, stopFinder, view, uiStep, handed>>

Nodes == UNION {Range(Tree[d]) : d \in DOMAIN Tree}
FileVersions == {"v1", "v2", "v3"}
IsFile(n) == node[n] \in FileVersions
ParentOf(n) == CHOOSE d \in DOMAIN Tree : n \in Range(Tree[d])
NextVersion(v) == IF v = "v1" THEN "v2" ELSE "v3"

NoPage(error) == [id |-> 0, snapshot |-> 0, error |-> error, entries |-> <<>>, offset |-> 0, next |-> 0, more |-> FALSE]
NoRow == PageRows
NoTrack == "none"

(* configure fails for a root that is missing or no directory; the worker goes on and answers with that. *)
ConfigureOutcomes == BOOLEAN
(* export_pdb_present: the library is listed only when its file is there. *)
LibraryPresent == node[Library] = "catalog"

BrowseInit ==
  /\ node \in {[n \in Nodes |-> IF n \in DOMAIN Tree THEN "dir" ELSE IF n = Library THEN "catalog" ELSE "v1"]}
  /\ rootSame = TRUE /\ fileChanges = 0
  /\ snapshot = [id |-> 0, counter |-> 0, entries |-> <<>>]
  /\ configured \in ConfigureOutcomes
  /\ mailbox = [state |-> "Idle", kind |-> "Browse", id |-> 0, arg |-> "root", snapshot |-> 0, offset |-> 0]
  /\ answer = NoPage("none")
  /\ wakeSeq = 0
  /\ finder = [pc |-> "observe", seen |-> 0]
  /\ stopFinder = FALSE
  /\ view = [page |-> NoPage("none"), dir |-> "root", counter |-> 0, pending |-> 0, selecting |-> FALSE,
             row |-> NoRow, label |-> NoTrack]
  /\ uiStep = "ready"
  /\ handed = [count |-> 0, path |-> NoTrack, version |-> NoTrack, label |-> NoTrack, listed |-> NoTrack]

----------------------------------------------------------------------------
(* DirectoryBrowser, called by the worker *)

(* resolve_directory: links and a root that was exchanged are refused. *)
DirectoryError(d) ==
  IF ~ rootSame THEN "changed"
  ELSE IF d = "root" \/ node[d] = "dir" THEN "none"
  ELSE IF node[d] = "absent" THEN "notfound" ELSE IF node[d] = "link" THEN "outside" ELSE "notdir"

(* identify_file *)
FileError(n) ==
  IF IsFile(n) THEN "none"
  ELSE IF node[n] = "absent" THEN "notfound" ELSE IF node[n] = "link" THEN "outside" ELSE "notfile"

Kind(n) == IF node[n] = "dir" THEN 0 ELSE IF n = Library THEN 2 ELSE 1
Entry(n) == [path |-> n, version |-> node[n], kind |-> Kind(n)]

(* The entries of those names that are in the set, in their order *)
EntriesIn(names, set) ==
  LET found[i \in 0 .. Len(names)] ==
        IF i = 0 THEN <<>>
        ELSE IF names[i] \in set THEN Append(found[i - 1], Entry(names[i])) ELSE found[i - 1]
  IN found[Len(names)]
ByKind(names, set) == LET Of(k) == EntriesIn(names, {n \in set : Kind(n) = k}) IN Of(0) \o Of(1) \o Of(2)

(* A catalog entry whose file cannot be identified below the root is skipped. *)
Identified == {n \in Range(Catalog) : DirectoryError(ParentOf(n)) = "none" /\ IsFile(n)}

(* scan: the error, and the entries in the order shown *)
Scan(d) ==
  IF d = Library
  THEN [error |-> IF LibraryPresent THEN "none" ELSE "notfound", entries |-> EntriesIn(Catalog, Identified)]
  ELSE LET here == {n \in Range(Tree[d]) : n # Library /\ node[n] # "absent"}
           shown == {n \in Range(Tree[d]) : node[n] = "dir" \/ IsFile(n) \/ (n = Library /\ LibraryPresent)}
       IN [error |-> IF DirectoryError(d) # "none" THEN DirectoryError(d)
                     ELSE IF Cardinality(here) > ScanLimit THEN "scanlimit" ELSE "none",
           entries |-> ByKind(Tree[d], shown)]

MinNat(a, b) == IF a < b THEN a ELSE b

(* read_page from snapshot s *)
Page(s, id, of, offset) ==
  IF s.id = 0 \/ of # s.id THEN [NoPage("stale") EXCEPT !.id = id]
  ELSE IF offset > Len(s.entries) THEN [NoPage("invalid") EXCEPT !.id = id]
  ELSE LET n == MinNat(PageRows, Len(s.entries) - offset)
       IN [id |-> id, snapshot |-> s.id, error |-> "none", offset |-> offset, next |-> offset + n,
           more |-> offset + n < Len(s.entries), entries |-> SubSeq(s.entries, offset + 1, offset + n)]

(* browse: a failed scan leaves no snapshot. *)
Browse(id, d) ==
  LET s == Scan(d)
  IN IF s.error # "none"
     THEN /\ snapshot' = [snapshot EXCEPT !.id = 0, !.entries = <<>>]
          /\ answer' = [NoPage(s.error) EXCEPT !.id = id]
     ELSE /\ snapshot' = [id |-> snapshot.counter + 1, counter |-> snapshot.counter + 1, entries |-> s.entries]
          /\ answer' = Page(snapshot', id, snapshot'.id, 0)

(* resolve_selection: the entry of the snapshot, and the file as it is now *)
Selection(of, path) ==
  LET found == SelectInSeq(snapshot.entries, LAMBDA e : e.path = path)
  IN IF snapshot.id = 0 \/ snapshot.id # of THEN "stale"
     ELSE IF found = 0 THEN "invalid"
     ELSE IF snapshot.entries[found].kind # 1 THEN "notfile"
     ELSE IF DirectoryError(ParentOf(path)) # "none" THEN DirectoryError(ParentOf(path))
     ELSE IF FileError(path) # "none" THEN FileError(path)
     ELSE IF node[path] # snapshot.entries[found].version THEN "changed" ELSE "none"

----------------------------------------------------------------------------
(* The worker thread *)

FinderAt(pc) == finder.pc = pc
FinderGoes(pc) == finder' = [finder EXCEPT !.pc = pc]
FinderOnly == UNCHANGED <<node, rootSame, fileChanges, configured, wakeSeq, stopFinder, view, uiStep, handed>>

FinderObserve ==
  /\ FinderAt("observe")
  /\ finder' = [pc |-> "check", seen |-> wakeSeq]
  /\ FinderOnly /\ UNCHANGED <<snapshot, mailbox, answer>>

FinderCheck ==
  /\ FinderAt("check")
  /\ FinderGoes(IF stopFinder THEN "returned" ELSE IF mailbox.state = "Queued" THEN "take" ELSE "wait")
  /\ FinderOnly /\ UNCHANGED <<snapshot, mailbox, answer>>

(* atomic wait: blocks only while the sequence is the one observed *)
M_FinderWait ==
  /\ FinderAt("wait")
  /\ FinderGoes("asleep")
  /\ FinderOnly /\ UNCHANGED <<snapshot, mailbox, answer>>
FinderWait ==
  /\ FinderAt("wait")
  /\ FinderGoes(IF wakeSeq = finder.seen THEN "asleep" ELSE "observe")
  /\ FinderOnly /\ UNCHANGED <<snapshot, mailbox, answer>>

FinderTake ==
  /\ FinderAt("take")
  /\ mailbox' = [mailbox EXCEPT !.state = "Working"] /\ FinderGoes("work")
  /\ FinderOnly /\ UNCHANGED <<snapshot, answer>>

FinderAnswer ==
  /\ FinderAt("work") /\ FinderGoes("ready")
  /\ \/ /\ ~ configured
        /\ answer' = [NoPage("notfound") EXCEPT !.id = mailbox.id] /\ UNCHANGED snapshot
     \/ /\ configured /\ mailbox.kind = "Browse" /\ Browse(mailbox.id, mailbox.arg)
     \/ /\ configured /\ mailbox.kind = "Page"
        /\ answer' = Page(snapshot, mailbox.id, mailbox.snapshot, mailbox.offset) /\ UNCHANGED snapshot
     \/ /\ configured /\ mailbox.kind = "Selection"
        /\ answer' = [id |-> mailbox.id, snapshot |-> mailbox.snapshot, path |-> mailbox.arg,
                      error |-> Selection(mailbox.snapshot, mailbox.arg), version |-> node[mailbox.arg]]
        /\ UNCHANGED snapshot
  /\ FinderOnly /\ UNCHANGED mailbox

FinderReady ==
  /\ FinderAt("ready")
  /\ mailbox' = [mailbox EXCEPT !.state = "Ready"] /\ FinderGoes("observe")
  /\ FinderOnly /\ UNCHANGED <<snapshot, answer>>

Finder == FinderObserve \/ FinderCheck \/ FinderWait \/ FinderTake \/ FinderAnswer \/ FinderReady

----------------------------------------------------------------------------
(* The LVGL thread.  submit stores the request and Queued, then wakes. *)

UiOnly == UNCHANGED <<node, rootSame, fileChanges, snapshot, configured, answer, stopFinder>>

SubmitRequest(kind, arg, of, offset, shown) ==
  /\ uiStep = "ready" /\ ~ stopFinder /\ view.counter < MaxBrowse
  /\ LET id == view.counter + 1
     IN IF mailbox.state # "Idle"
        THEN view' = [view EXCEPT !.counter = id] /\ UNCHANGED <<mailbox, uiStep>>
        ELSE /\ mailbox' = [state |-> "Queued", kind |-> kind, id |-> id, arg |-> arg, snapshot |-> of, offset |-> offset]
             /\ view' = [shown EXCEPT !.counter = id, !.pending = id]
             /\ uiStep' = "wake"
  /\ UiOnly /\ UNCHANGED <<wakeSeq, finder, handed>>

WakeFinder ==
  /\ uiStep = "wake" /\ uiStep' = "ready"
  /\ wakeSeq' = wakeSeq + 1
  /\ IF FinderAt("asleep") THEN FinderGoes("observe") ELSE UNCHANGED finder
  /\ UiOnly /\ UNCHANGED <<mailbox, view, handed>>

Calm == view.pending = 0
Valid == Calm /\ view.page.error = "none" /\ view.page.snapshot # 0
Deselected == [view EXCEPT !.row = NoRow, !.label = NoTrack]
BrowseTo(d) == SubmitRequest("Browse", d, 0, 0, [Deselected EXCEPT !.dir = d])

ClickRefresh == Calm /\ BrowseTo(view.dir)
ClickUp == Calm /\ view.dir # "root" /\ BrowseTo(IF view.dir = Library THEN "root" ELSE ParentOf(view.dir))
M_RequestPage(offset) == SubmitRequest("Page", view.dir, view.page.snapshot, offset, view)
RequestPage(offset) == SubmitRequest("Page", view.dir, view.page.snapshot, offset, Deselected)
ClickNext == Valid /\ view.page.more /\ RequestPage(view.page.next)
ClickPrevious ==
  Valid /\ view.page.offset # 0
        /\ RequestPage(IF view.page.offset >= PageRows THEN view.page.offset - PageRows ELSE 0)

(* select: a directory or the library is browsed, a file becomes the selection. *)
ClickRow(index) ==
  /\ Valid /\ index < Len(view.page.entries) /\ uiStep = "ready" /\ ~ stopFinder
  /\ LET e == view.page.entries[index + 1]
     IN IF e.kind # 1 THEN BrowseTo(e.path)
        ELSE /\ view' = [view EXCEPT !.row = index, !.label = e.path]
             /\ UiOnly /\ UNCHANGED <<mailbox, wakeSeq, finder, uiStep, handed>>

(* validate_selection *)
ClickUse ==
  /\ Valid /\ view.row < Len(view.page.entries)
  /\ SubmitRequest("Selection", view.page.entries[view.row + 1].path, view.page.snapshot, 0,
                   [view EXCEPT !.selecting = TRUE])

Poll(selection) ==
  /\ uiStep = "ready" /\ ~ stopFinder
  /\ mailbox.state = "Ready" /\ (mailbox.kind = "Selection") = selection /\ view.selecting = selection
  /\ mailbox' = [mailbox EXCEPT !.state = "Idle"]
  /\ UiOnly /\ UNCHANGED <<wakeSeq, finder, uiStep>>

PollPage ==
  /\ Poll(FALSE)
  /\ view' = [view EXCEPT !.pending = 0, !.page = IF answer.id = view.pending THEN answer ELSE NoPage("stale")]
  /\ UNCHANGED handed

(* The handler takes the selection or refuses it (the deck is busy). *)
PollSelection(takes) ==
  /\ Poll(TRUE)
  /\ LET good == answer.id = view.pending /\ answer.snapshot = view.page.snapshot /\ answer.error = "none"
     IN /\ view' = [view EXCEPT !.pending = 0, !.selecting = FALSE,
                                !.row = IF good /\ takes THEN NoRow ELSE view.row]
        /\ handed' = IF good /\ takes
                     THEN [count |-> handed.count + 1, path |-> answer.path, version |-> answer.version, label |-> view.label,
                           listed |-> view.page.entries[view.row + 1].version]
                     ELSE handed

(* ~DirectoryBrowserWorker: stop, wake and join *)
StopFinder ==
  /\ uiStep = "ready" /\ ~ stopFinder
  /\ stopFinder' = TRUE /\ uiStep' = "wake"
  /\ UNCHANGED <<node, rootSame, fileChanges, snapshot, configured, answer, mailbox, wakeSeq, finder, view, handed>>

Clicks == \/ ClickRefresh \/ ClickUp \/ ClickNext \/ ClickPrevious \/ ClickUse
          \/ \E i \in 0 .. PageRows - 1 : ClickRow(i)
Polls == PollPage \/ \E t \in BOOLEAN : PollSelection(t)

(* A file is replaced, removed or turned into a link, or the root is exchanged. *)
FilesChange ==
  /\ fileChanges < MaxFileChanges /\ fileChanges' = fileChanges + 1
  /\ \/ \E n \in Nodes, to \in {"absent", "link", "next"} :
          /\ IsFile(n) \/ to # "next"
          /\ node' = [node EXCEPT ![n] = IF to = "next" THEN NextVersion(node[n]) ELSE to]
          /\ UNCHANGED rootSame
     \/ rootSame' = FALSE /\ UNCHANGED node
  /\ UNCHANGED <<snapshot, configured, mailbox, answer, wakeSeq, finder, stopFinder, view, uiStep, handed>>

BrowseNext == Finder \/ WakeFinder \/ Clicks \/ Polls \/ StopFinder \/ FilesChange
BrowseSpec == BrowseInit /\ [][BrowseNext]_browseVars
BrowseFairness == WF_browseVars(Finder) /\ WF_browseVars(WakeFinder) /\ WF_browseVars(Polls)

----------------------------------------------------------------------------
(* What is handed to the load handler is the track whose name the view     *)
(* shows as selected, and its file is the one that was listed under that   *)
(* name: paging, browsing, failed scans and files replaced meanwhile may   *)
(* neither move the selection nor exchange the file behind it.             *)
HandsOffWhatIsShown ==
  handed.count # 0 => handed.path = handed.label /\ handed.version = handed.listed

(* A request in the mailbox is answered and a stop ends the worker: the    *)
(* wake between its look at the mailbox and its sleep is not lost.         *)
FinderServes == /\ (mailbox.state = "Queued" /\ ~ stopFinder) ~> (mailbox.state = "Ready" \/ stopFinder)
                /\ stopFinder ~> FinderAt("returned")
=============================================================================
