------------------------------ MODULE Surface -------------------------------
(***************************************************************************)
(* What stands behind the screens: the directory browser, the waveform     *)
(* worker, the cue button, the waveforms and the keyboard of a deck, and   *)
(* the projects of the application designer.  The six share no state here  *)
(* (each view has its own worker, queue or player), so a behaviour runs    *)
(* one of them while the others rest; what holds of each of them alone is  *)
(* checked of all of them here, with the bounds in one place.  The run     *)
(* also evaluates the assumptions UiObservation, BeatGrid, RekordboxImport *)
(* and RekordboxLibrary state of their operators.                          *)
(***************************************************************************)
EXTENDS DirectoryBrowsing, WaveformAnalysis, CueButton, SeekGesture, NotePath, ProjectStore,
        UiObservation, RekordboxImport, RekordboxLibrary

VARIABLE part   \* the component that runs

surfaceVars == <<part, browseVars, waveVars, cueVars, seekVars, noteVars, storeVars>>

(* A root with a file, a directory and a library that names a file of each. *)
SmallTree == [d \in {"root", "d"} |->
                IF d = "root" THEN <<"a", "d", "lib">> ELSE <<"b", "c", "e">>]
SmallCatalog == <<"a", "c">>
TrackLengths == <<2, 2, 1>>
SeekTracks == <<2, 1>>

SurfaceInit ==
  /\ part \in {"browser", "waveform", "cue", "seek", "keyboard", "projects"}
  /\ BrowseInit /\ WaveInit /\ CueInit /\ SeekInit /\ NoteInit /\ StoreInit
  /\ part # "browser" => configured

SurfaceNext ==
  \/ part = "browser" /\ BrowseNext /\ UNCHANGED <<part, waveVars, cueVars, seekVars, noteVars, storeVars>>
  \/ part = "waveform" /\ WaveNext /\ UNCHANGED <<part, browseVars, cueVars, seekVars, noteVars, storeVars>>
  \/ part = "cue" /\ CueNext /\ UNCHANGED <<part, browseVars, waveVars, seekVars, noteVars, storeVars>>
  \/ part = "seek" /\ SeekNext /\ UNCHANGED <<part, browseVars, waveVars, cueVars, noteVars, storeVars>>
  \/ part = "keyboard" /\ NoteNext /\ UNCHANGED <<part, browseVars, waveVars, cueVars, seekVars, storeVars>>
  \/ part = "projects" /\ StoreNext /\ UNCHANGED <<part, browseVars, waveVars, cueVars, seekVars, noteVars>>

(* BrowseFairness, while the browser runs.                                 *)
SurfaceFairness ==
  /\ WF_browseVars(part = "browser" /\ Finder) /\ WF_browseVars(part = "browser" /\ WakeFinder)
  /\ WF_browseVars(part = "browser" /\ Polls)

SurfaceSpec == SurfaceInit /\ [][SurfaceNext]_surfaceVars /\ SurfaceFairness
=============================================================================
