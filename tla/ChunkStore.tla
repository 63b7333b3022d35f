-------------------------------- MODULE ChunkStore --------------------------------
(***************************************************************************)
(* What DecodedAudioPool promises, without threads, compare-exchanges or   *)
(* probing: a fixed store of chunks where a chunk appears whole, stays as  *)
(* it is until it leaves, is leased to at most one reader, and is dropped  *)
(* unread only by a discard of older generations.                          *)
(* DecodedAudioPool implements it (property Store of the run "pool").      *)
(***************************************************************************)
EXTENDS Naturals

CONSTANTS Cells, Chunks, NoChunk, Gens, GenerationOf(_)

VARIABLES phase, chunk

storeVars == <<phase, chunk>>

Phases == {"Free", "Filling", "Ready", "Leased"}

StoreInit ==
  /\ phase = [c \in Cells |-> "Free"]
  /\ chunk = [c \in Cells |-> NoChunk]

Move(c, from, to) == phase[c] = from /\ phase' = [phase EXCEPT ![c] = to]

Reserve(c) == Move(c, "Free", "Filling") /\ UNCHANGED chunk
Abandon(c) == Move(c, "Filling", "Free") /\ UNCHANGED chunk
Publish(c, k) == Move(c, "Filling", "Ready") /\ chunk' = [chunk EXCEPT ![c] = k]
Lease(c) == Move(c, "Ready", "Leased") /\ UNCHANGED chunk
Return(c) == Move(c, "Leased", "Free") /\ chunk' = [chunk EXCEPT ![c] = NoChunk]

(* A discard drops only chunks of a generation older than the one it names. *)
Drop(c, g) ==
  /\ GenerationOf(chunk[c]) < g
  /\ Move(c, "Ready", "Free")
  /\ chunk' = [chunk EXCEPT ![c] = NoChunk]

StoreNext == \E c \in Cells :
  \/ Reserve(c) \/ Abandon(c) \/ Lease(c) \/ Return(c)
  \/ \E k \in Chunks : Publish(c, k)
  \/ \E g \in Gens : Drop(c, g)

StoreSpec == StoreInit /\ [][StoreNext]_storeVars
=============================================================================
