----------------------------- MODULE SignalPath -----------------------------
(***************************************************************************)
(* What moves samples and control values: the output backends, the media   *)
(* readers under DecodeAhead, the WAV writer, the tempo analysis and the   *)
(* control loop between widgets, a parameter and the mapper.  They share   *)
(* no state (they are modules, or members of different modules, joined by  *)
(* messages the models take from small sets), so a behaviour runs one of   *)
(* them while the others rest.  The run also evaluates the assumptions     *)
(* that DeckControls, VarispeedLoop, Envelope and AudioFormats state of    *)
(* their operators.                                                        *)
(***************************************************************************)
EXTENDS AudioOutput, MediaReaders, WavRecording, TempoAnalysis, ControlPath,
        DeckControls, VarispeedLoop, Envelope, AudioFormats

VARIABLE part   \* the component that runs

signalVars == <<part, outputVars, mediaVars, recordingVars, tempoVars, controlVars>>

(* Every codec, and for those whose container declares a length, files     *)
(* that are shorter or longer than it says.                                *)
File(codec, length, declared) == [codec |-> codec, length |-> length, declared |-> declared]
SmallMedia == {File("wav", 5, 5), File("mp3", 5, 5), File("flac", 5, 5), File("flac", 4, 6),
               File("aac", 5, 5), File("aac", 5, 4), File("aac", 5, 7)}

(* The mappers: one binding of every mode, with and without pickup and     *)
(* hysteresis where the mode has them; two widgets on one parameter; and   *)
(* one widget that moves the parameter through two bindings.               *)
Slider(mode, pickup, hysteresis) ==
  [control |-> 1, mode |-> mode, pickup |-> pickup, hysteresis |-> hysteresis]
Knob(pickup) == [control |-> 2, mode |-> "absolute", pickup |-> pickup, hysteresis |-> 0]
SmallBindings ==
  {<<Slider(m, "immediate", 2)>> : m \in {"toggle", "relative", "momentary", "trigger"}} \cup
  {<<Slider("absolute", p, h)>> : p \in {"immediate", "match"}, h \in {0, 2}} \cup
  {<<Slider("absolute", "immediate", 0), Knob("match")>>,
   <<Slider("absolute", "match", 0), Slider("toggle", "immediate", 0)>>}

(* A component that does not run starts in one of its initial states.      *)
SignalInit ==
  /\ part \in {"output", "readers", "recording", "tempo", "controls"}
  /\ OutputInit /\ MediaInit /\ RecordingInit /\ TempoInit /\ ControlInit
  /\ part # "output" => backend = "alsa"
  /\ part # "readers" => media = CHOOSE m \in Media : TRUE
  /\ part # "controls" => binding = CHOOSE b \in Bindings : TRUE

SignalNext ==
  \/ part = "output" /\ OutputNext /\ UNCHANGED <<part, mediaVars, recordingVars, tempoVars, controlVars>>
  \/ part = "readers" /\ MediaNext /\ UNCHANGED <<part, outputVars, recordingVars, tempoVars, controlVars>>
  \/ part = "recording" /\ RecordingNext /\ UNCHANGED <<part, outputVars, mediaVars, tempoVars, controlVars>>
  \/ part = "tempo" /\ TempoNext /\ UNCHANGED <<part, outputVars, mediaVars, recordingVars, controlVars>>
  \/ part = "controls" /\ ControlNext /\ UNCHANGED <<part, outputVars, mediaVars, recordingVars, tempoVars>>

(* OutputFairness and ControlFairness, while their component runs.         *)
SignalFairness ==
  /\ WF_outputVars(part = "output" /\ Feeder)
  /\ WF_outputVars(part = "output" /\ (WriteCopy \/ WriteStore))
  /\ WF_outputVars(part = "output" /\ ProcessBlock(MaxBlock, TRUE))
  /\ WF_controlVars(part = "controls" /\ ApplyUpdate)
  /\ WF_controlVars(part = "controls" /\ SinkRuns)
  /\ WF_<<controlBlock, published>>(part = "controls" /\ MapperTakes)
  /\ WF_controlVars(part = "controls" /\ ProcessorRuns)
  /\ WF_controlVars(part = "controls" /\ AdapterRuns)
  /\ WF_controlVars(part = "controls" /\ RouterRuns)
  /\ \A b \in BindingIds : WF_controlVars(part = "controls" /\ SourceRuns(b))

SignalSpec == SignalInit /\ [][SignalNext]_signalVars /\ SignalFairness
=============================================================================
