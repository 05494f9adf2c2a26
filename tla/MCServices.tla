----------------------------- MODULE MCServices -----------------------------
(* Eight components that share no state, checked side by side: a behaviour *)
(* is one of the component that part names, and the others rest.           *)
EXTENDS VoiceCalls, EventBus, Broadcasts, Failover, RateLimit, Moderation,
        Intake, Privacy, TLC

CONSTANTS h1, c1, c2, m1, m2, e1, e2, k1, k2,
    d1, d2, x1, x2, x3

MCCalls      == {c1, c2}
MCCaller     == (c1 :> m1) @@ (c2 :> m1)
MCSubscribed == (e1 :> {k1, k2}) @@ (e2 :> {})

MCChain   == <<"openai", "groq">>
MCFailMax == <<2, 1>>

(* The second delivery brings a message of the first one again.            *)
MCBatch == (d1 :> <<x1, x2>>) @@ (d2 :> <<x2, x3>>)
MCFrom  == (x1 :> m1) @@ (x2 :> m2) @@ (x3 :> m1)

VARIABLE part

parts == <<part, voiceVars, busVars, bcVars, llmVars, rateVars, modVars, intakeVars,
           privacyVars>>

ServicesInit ==
    /\ part \in {"voice", "bus", "broadcast", "models", "rate", "safety", "intake", "privacy"}
    /\ VoiceInit /\ (part # "voice" => host = [c \in Calls |-> h1])
    /\ BusInit
    /\ BcInit /\ (part # "broadcast" => \A q \in Requests : request[q].kind = "send")
    /\ LlmInit
    /\ RateInit
    /\ ModInit
    /\ IntakeInit
    /\ PrivacyInit

ServicesNext ==
    /\ UNCHANGED part
    /\ \/ /\ part = "voice" /\ VoiceNext
          /\ UNCHANGED <<busVars, bcVars, llmVars, rateVars, modVars, intakeVars, privacyVars>>
       \/ /\ part = "bus" /\ BusNext
          /\ UNCHANGED <<voiceVars, bcVars, llmVars, rateVars, modVars, intakeVars, privacyVars>>
       \/ /\ part = "broadcast" /\ BcNext
          /\ UNCHANGED <<voiceVars, busVars, llmVars, rateVars, modVars, intakeVars, privacyVars>>
       \/ /\ part = "models" /\ LlmNext
          /\ UNCHANGED <<voiceVars, busVars, bcVars, rateVars, modVars, intakeVars, privacyVars>>
       \/ /\ part = "rate" /\ RateNext
          /\ UNCHANGED <<voiceVars, busVars, bcVars, llmVars, modVars, intakeVars, privacyVars>>
       \/ /\ part = "safety" /\ ModNext
          /\ UNCHANGED <<voiceVars, busVars, bcVars, llmVars, rateVars, intakeVars, privacyVars>>
       \/ /\ part = "intake" /\ IntakeNext
          /\ UNCHANGED <<voiceVars, busVars, bcVars, llmVars, rateVars, modVars, privacyVars>>
       \/ /\ part = "privacy" /\ PrivacyNext
          /\ UNCHANGED <<voiceVars, busVars, bcVars, llmVars, rateVars, modVars, intakeVars>>

(* Of the broadcasts: a started run goes on, and the queue serves the jobs *)
(* that are due.                                                           *)
BroadcastFairness ==
    /\ \A r \in Runs : WF_bcVars(part = "broadcast" /\ RunStep(r))
    /\ \A r \in Runs, q \in Requests :
          WF_bcVars(/\ part = "broadcast"
                    /\ ClaimJob(r, q) \/ (Active(q) = {} /\ ReclaimJob(r, q)))

(* Of the deliveries: runners keep running the jobs that are due.          *)
DeliveryFairness ==
    \A d \in Deliveries : WF_intakeVars(part = "intake" /\ JobStep(d))

(* Of the models: customers keep writing, providers answer in the end, and *)
(* time passes.                                                            *)
ModelsFairness ==
    /\ \A t \in Turns : /\ WF_llmVars(part = "models" /\ Invoke(t))
                        /\ WF_llmVars(part = "models" /\ CallAnswers(t))
    /\ \A p \in Providers : WF_llmVars(part = "models" /\ CoolsDown(p))

ServicesSpec ==
    /\ ServicesInit /\ [][ServicesNext]_parts
    /\ BroadcastFairness
    /\ ModelsFairness
    /\ DeliveryFairness

ServicesTypeOK ==
    /\ VoiceTypeOK /\ BusTypeOK /\ BcTypeOK /\ LlmTypeOK /\ RateTypeOK
    /\ ModTypeOK /\ IntakeTypeOK /\ PrivacyTypeOK
=============================================================================
