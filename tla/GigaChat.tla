------------------------------- MODULE GigaChat -------------------------------
(***************************************************************************)
(* The client that describes photos (infrastructure/ai/gigachat).  Its     *)
(* callers share a token, which one of them asks for at a time, under the  *)
(* gate; then each uploads its image and asks, again if the service fails. *)
(* One action is one step between two waits.                               *)
(***************************************************************************)
EXTENDS Integers, FiniteSets

CONSTANTS Calls,      \* the calls that may be made
          MaxRetries

ASSUME GigaChatAssumption == MaxRetries \in Nat

VARIABLES
  phase,   \* where each call is
  gate,    \* tokens in Client.tokenGate
  fresh,   \* whether there is a token whose time, less a minute, is not over
  tries,   \* how often each call sent its question
  tokens,  \* history: tokens the service gave
  lapses   \* history: tokens whose time was over

client == <<gate, fresh, tries, tokens, lapses>>

GoesTo(c, next) == phase' = [phase EXCEPT ![c] = next]

GigaChatInit ==
  /\ gate = 0
  /\ fresh = FALSE
  /\ tries = [c \in Calls |-> 0]
  /\ tokens = 0
  /\ lapses = 0

(* getTokenWithURL with a token at hand: the gate is passed in one step.   *)
TokenIsCached(c) ==
  /\ phase[c] = "token" /\ gate = 0 /\ fresh
  /\ GoesTo(c, "upload")
  /\ UNCHANGED client

AskToken(c) ==
  /\ phase[c] = "token" /\ gate = 0 /\ ~fresh
  /\ gate' = 1
  /\ GoesTo(c, "authorize")
  /\ UNCHANGED <<fresh, tries, tokens, lapses>>

(* Mutant: the token is used and not kept. *)
GetTokenUnkept(c) ==
  /\ phase[c] = "authorize"
  /\ gate' = 0
  /\ GoesTo(c, "upload") /\ tokens' = tokens + 1
  /\ UNCHANGED <<fresh, tries, lapses>>

(* Mutant: the gate stays closed after a failed request. *)
GetTokenKeepingGate(c) ==
  /\ phase[c] = "authorize"
  /\ \/ gate' = 0 /\ GoesTo(c, "upload") /\ tokens' = tokens + 1 /\ fresh' = TRUE
     \/ GoesTo(c, "undescribed") /\ UNCHANGED <<gate, tokens, fresh>>
  /\ UNCHANGED <<tries, lapses>>

(* The answer to the request for a token; one that is given for less than  *)
(* a minute is used this once.                                             *)
GetToken(c) ==
  /\ phase[c] = "authorize"
  /\ gate' = 0
  /\ \/ /\ GoesTo(c, "upload") /\ tokens' = tokens + 1
        /\ \/ fresh' = TRUE /\ UNCHANGED lapses
           \/ fresh' = FALSE /\ lapses' = lapses + 1
     \/ GoesTo(c, "undescribed") /\ UNCHANGED <<tokens, fresh, lapses>>
  /\ UNCHANGED tries

TokenLapses ==
  /\ fresh
  /\ fresh' = FALSE /\ lapses' = lapses + 1
  /\ UNCHANGED <<phase, gate, tries, tokens>>

UploadImage(c) ==
  /\ phase[c] = "upload"
  /\ GoesTo(c, "chat") \/ GoesTo(c, "undescribed")
  /\ UNCHANGED client

(* Mutant: the pause after the last try is made too. *)
ChatPausingAlways(c) ==
  /\ phase[c] = "chat"
  /\ tries' = [tries EXCEPT ![c] = @ + 1]
  /\ GoesTo(c, "decide") \/ GoesTo(c, "undescribed") \/ (tries[c] < 6 /\ GoesTo(c, "pause"))
  /\ UNCHANGED <<gate, fresh, tokens, lapses>>

(* One try of chatWithBaseURL: a description, an answer that is no use, or *)
(* a failure of the service.                                               *)
Chat(c) ==
  /\ phase[c] = "chat"
  /\ tries' = [tries EXCEPT ![c] = @ + 1]
  /\ \/ GoesTo(c, "decide") \/ GoesTo(c, "undescribed")
     \/ tries[c] < MaxRetries /\ GoesTo(c, "pause")
  /\ UNCHANGED <<gate, fresh, tokens, lapses>>

WaitForRetry(c) ==
  /\ phase[c] = "pause"
  /\ GoesTo(c, "chat")
  /\ UNCHANGED client

(* The caller's time is over in a wait for the gate or for the next try.   *)
CallerGivesUp(c) ==
  /\ phase[c] \in {"token", "pause"}
  /\ GoesTo(c, "undescribed")
  /\ UNCHANGED client

GenerateContent(c) ==
  \/ TokenIsCached(c) \/ AskToken(c) \/ GetToken(c) \/ UploadImage(c)
  \/ Chat(c) \/ WaitForRetry(c) \/ CallerGivesUp(c)
===============================================================================
