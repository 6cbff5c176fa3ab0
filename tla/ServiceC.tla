------------------------------ MODULE ServiceC ------------------------------
(***************************************************************************)
(* Service C (Services/Service_C/Service_C.go): it subscribes to the Redis *)
(* channel drift_alerts and runs an analysis in Postgres for every alert   *)
(* it gets, one after the other.  Publish reaches only the connections     *)
(* that are subscribed at the moment; go-redis keeps what arrives over its *)
(* connection in a Go channel, of which the loop takes one alert at a time.*)
(***************************************************************************)
EXTENDS Integers

CONSTANTS
    ChannelSize,     \* the buffer of the channel of go-redis (100)
    ServiceCFaults   \* the failures that may happen

\* disconnect  the connection of the subscription breaks; go-redis makes it anew
ServiceCFaultKinds == {"disconnect"}

ASSUME ServiceCAssumption ==
    /\ ChannelSize \in Nat \ {0}
    /\ ServiceCFaults \subseteq ServiceCFaultKinds

VARIABLES
    cpc,         \* what service C does: "start", "wait" or "analyse"
    subscribed,  \* its connection is subscribed to drift_alerts
    inFlight,    \* the number of alerts sent over it that have not arrived
    waiting,     \* the number of alerts in its channel
    analysed     \* the number of analyses it has done (history)

serviceCVars == <<cpc, subscribed, inFlight, waiting, analysed>>

ServiceCTypeOK ==
    /\ cpc \in {"start", "wait", "analyse"}
    /\ subscribed \in BOOLEAN
    /\ inFlight \in Nat
    /\ waiting \in 0..ChannelSize
    /\ analysed \in Nat

ServiceCInit ==
    /\ cpc = "start"
    /\ subscribed = FALSE
    /\ inFlight = 0
    /\ waiting = 0
    /\ analysed = 0

-----------------------------------------------------------------------------
\* Subscribe and the Receive that waits for its confirmation; Postgres and Redis
\* are only pinged, and a ping that fails is logged.
Subscribe ==
    /\ cpc = "start"
    /\ cpc' = "wait"
    /\ subscribed' = TRUE
    /\ UNCHANGED <<inFlight, waiting, analysed>>

\* Redis takes n alerts from another client and sends them to its subscribers.
Deliver(n) ==
    /\ inFlight' = IF subscribed THEN inFlight + n ELSE inFlight
    /\ UNCHANGED <<cpc, subscribed, waiting, analysed>>

\* go-redis reads the next alert.  When the channel is full it waits a minute for
\* room and then drops it; ChannelSize counts what that minute holds back, too.
Arrive ==
    /\ inFlight > 0
    /\ inFlight' = inFlight - 1
    /\ waiting' = IF waiting < ChannelSize THEN waiting + 1 ELSE waiting
    /\ UNCHANGED <<cpc, subscribed, analysed>>

\* The loop takes the next alert from the channel.
Take ==
    /\ cpc = "wait"
    /\ waiting > 0
    /\ waiting' = waiting - 1
    /\ cpc' = "analyse"
    /\ UNCHANGED <<subscribed, inFlight, analysed>>

\* performDriftAnalysis: the query returns a result or an error, and either is
\* logged.
Analyse ==
    /\ cpc = "analyse"
    /\ analysed' = analysed + 1
    /\ cpc' = "wait"
    /\ UNCHANGED <<subscribed, inFlight, waiting>>

\* Mutant: the subscription is made anew with a channel of its own.
DisconnectDropsChannel ==
    /\ subscribed
    /\ subscribed' = FALSE
    /\ inFlight' = 0
    /\ waiting' = 0
    /\ UNCHANGED <<cpc, analysed>>

\* What has not arrived is lost; what is in the channel stays there while the
\* connection is made anew.
Disconnect ==
    /\ "disconnect" \in ServiceCFaults
    /\ subscribed
    /\ subscribed' = FALSE
    /\ inFlight' = 0
    /\ UNCHANGED <<cpc, waiting, analysed>>

Resubscribe ==
    /\ cpc # "start"
    /\ ~subscribed
    /\ subscribed' = TRUE
    /\ UNCHANGED <<cpc, inFlight, waiting, analysed>>

\* The process dies, and with it the subscription and the channel.
ServiceCDies ==
    /\ cpc' = "start"
    /\ subscribed' = FALSE
    /\ inFlight' = 0
    /\ waiting' = 0
    /\ UNCHANGED analysed

ServiceCNext ==
    Subscribe \/ Arrive \/ Take \/ Analyse \/ Disconnect \/ Resubscribe
=============================================================================
