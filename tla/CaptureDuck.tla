---------------------------- MODULE CaptureDuck -----------------------------
(* How the mixer lowers the music while somebody speaks to the bot         *)
(* (Audio/Mixer.go): a flag, an epoch that every lowering advances, and    *)
(* one goroutine per raising that sleeps and then clears the flag, if the  *)
(* epoch is still the one it read before it slept.  The atomics are loaded *)
(* and stored one at a time, so each is a step.                            *)
(*                                                                         *)
(* An owner is whatever lowers the music once and has it raised once: one  *)
(* capture, or one spoken response.                                        *)
EXTENDS Naturals

CONSTANTS Capture, Response

ASSUME OwnersAssumption == Capture \cap Response = {}

Owner == Capture \cup Response

VARIABLES captureDuckActive, captureDuckEpoch, timers, responses

duckVars == <<captureDuckActive, captureDuckEpoch, timers, responses>>

NoTimer == [at |-> "none", expected |-> 0]
Timer   == [at : {"none", "sleeping", "clearing"}, expected : Nat]

ResponseSteps == {"none", "advancing", "storing", "ending", "over"}

DuckTypeOK ==
  /\ captureDuckActive \in BOOLEAN
  /\ captureDuckEpoch \in Nat
  /\ timers \in [Owner -> Timer]
  /\ responses \in [Response -> ResponseSteps]

DuckInit ==
  /\ captureDuckActive = FALSE
  /\ captureDuckEpoch = 0
  /\ timers = [o \in Owner |-> NoTimer]
  /\ responses = [r \in Response |-> "none"]

(* SetCaptureDuck(true): the epoch first, then the flag.                   *)
AdvanceEpoch ==
  /\ captureDuckEpoch' = captureDuckEpoch + 1
  /\ UNCHANGED <<captureDuckActive, timers>>

LowerMusic ==
  /\ captureDuckActive' = TRUE
  /\ UNCHANGED <<captureDuckEpoch, timers>>

\* Slip: raising the music advances the epoch as lowering it does.
EndInNewEpoch(o) ==
  /\ timers' = [timers EXCEPT ![o] = [at |-> "sleeping",
                                      expected |-> captureDuckEpoch]]
  /\ captureDuckEpoch' = captureDuckEpoch + 1
  /\ UNCHANGED captureDuckActive

(* EndCaptureDuckAfter, with a delay that is positive wherever it is called.*)
EndCaptureDuckAfter(o) ==
  /\ timers' = [timers EXCEPT ![o] = [at |-> "sleeping",
                                      expected |-> captureDuckEpoch]]
  /\ UNCHANGED <<captureDuckActive, captureDuckEpoch>>

(* The sleeper wakes up and compares; it gives up or goes on to the store. *)
TimerWakes(o) ==
  /\ timers[o].at = "sleeping"
  /\ timers' = [timers EXCEPT ![o] =
                  IF @.expected = captureDuckEpoch THEN [@ EXCEPT !.at = "clearing"]
                  ELSE NoTimer]
  /\ UNCHANGED <<captureDuckActive, captureDuckEpoch, responses>>

TimerClears(o) ==
  /\ timers[o].at = "clearing"
  /\ timers' = [timers EXCEPT ![o] = NoTimer]
  /\ captureDuckActive' = FALSE
  /\ UNCHANGED <<captureDuckEpoch, responses>>

(* A voice command answers aloud, if its guild is still in the store:      *)
(* PlayVoiceResponse, in a goroutine of its own, takes the mixer under the *)
(* guild's mutex, has the speech generated, and plays it with              *)
(* PlayTTSOverlay.  Speech that cannot be generated is one never asked for.*)
ResponseTakesMixer(r, mayTake) ==
  /\ responses[r] = "none"
  /\ mayTake
  /\ responses' = [responses EXCEPT ![r] = "advancing"]
  /\ UNCHANGED <<captureDuckActive, captureDuckEpoch, timers>>

ResponsePlays(r) ==
  \/ /\ responses[r] = "advancing"
     /\ AdvanceEpoch
     /\ responses' = [responses EXCEPT ![r] = "storing"]
  \/ /\ responses[r] = "storing"
     /\ LowerMusic
     /\ responses' = [responses EXCEPT ![r] = "ending"]
  \/ /\ responses[r] = "ending"
     /\ EndCaptureDuckAfter(r)
     /\ responses' = [responses EXCEPT ![r] = "over"]

=============================================================================
