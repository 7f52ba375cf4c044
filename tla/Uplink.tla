-------------------------------- MODULE Uplink --------------------------------
(***************************************************************************)
(* The way out: the Wi-Fi event handler with its bounded number of         *)
(* reconnections (wifi_manager.c), and the MQTT client with its connected  *)
(* flag, its retained "online" and its last will (mqtt_publisher.c).  The  *)
(* access point and the broker are external; the broker itself does not    *)
(* fail.  The MQTT library reconnects by itself.                           *)
(***************************************************************************)
EXTENDS Naturals

CONSTANT MaxRetry  \* CONFIG_WIFI_MAXIMUM_RETRY

ASSUME UplinkAssumption == MaxRetry \in Nat

VARIABLES
    reach,      \* the access point is in reach
    wifi,       \* the station: "off", "connecting", "up", or "failed"
    retries,    \* s_retry_num
    failures,   \* history: disconnections since it was last up
    connected,  \* s_is_connected of the MQTT client
    outbox,     \* "online" is in its outbox, not acknowledged
    sending,    \* the meter task has tested the flag and fills in the template
    lost,       \* history: the last message went nowhere
    session,    \* the broker has a session of this client
    status      \* retained on the status topic: "none", "online" or "offline"

station == <<wifi, retries, failures>>
client  == <<connected, outbox, sending, lost>>
broker  == <<session, status>>
uplink  == <<reach, station, client, broker>>

UplinkTypeOK ==
    /\ reach \in BOOLEAN /\ wifi \in {"off", "connecting", "up", "failed"}
    /\ retries \in 0 .. MaxRetry /\ failures \in 0 .. MaxRetry + 1
    /\ connected \in BOOLEAN /\ outbox \in BOOLEAN
    /\ sending \in BOOLEAN /\ lost \in BOOLEAN
    /\ session \in BOOLEAN /\ status \in {"none", "online", "offline"}

ClientInit == connected = FALSE /\ outbox = FALSE /\ sending = FALSE /\ lost = FALSE

UplinkInit ==
    /\ reach \in BOOLEAN /\ wifi = "off" /\ retries = 0 /\ failures = 0
    /\ ClientInit
    /\ session = FALSE /\ status = "none"

-----------------------------------------------------------------------------
(* Wi-Fi                                                                   *)

\* wifi_manager_init; WIFI_EVENT_STA_START connects.
StationStarts ==
    /\ wifi' = "connecting" /\ retries' = 0 /\ failures' = 0

TriesLeftOneMore == retries <= MaxRetry
TriesLeft == retries < MaxRetry

ReconnectForgotten == wifi' = "off"
Reconnect == wifi' = "connecting"

\* WIFI_EVENT_STA_DISCONNECTED, for an attempt that failed or a link that was
\* lost: connect again, so many times.
Disconnected ==
    /\ wifi \in {"connecting", "up"} /\ ~ reach
    /\ failures' = failures + 1
    /\ \/ TriesLeft /\ Reconnect /\ retries' = retries + 1
       \/ ~ TriesLeft /\ wifi' = "failed" /\ UNCHANGED retries
    /\ UNCHANGED <<reach, client, broker>>

\* IP_EVENT_STA_GOT_IP.
GotIpKeepsCount == retries' = retries
GotIpResets == retries' = 0

GotIp ==
    /\ wifi = "connecting" /\ reach
    /\ wifi' = "up" /\ GotIpResets /\ failures' = 0
    /\ UNCHANGED <<reach, client, broker>>

\* The access point comes and goes (external).
AccessPoint == reach' = ~ reach /\ UNCHANGED <<station, client, broker>>

-----------------------------------------------------------------------------
(* MQTT                                                                    *)

\* The broker gives up a session and publishes its will (external, as
\* configured by mqtt_publisher_init).
StatusWithoutWill == status
StatusAfterWill == "offline"

\* MQTT_EVENT_CONNECTED; a session the broker still has of this client is taken
\* over.
OnConnectOnlyFlag == connected' = TRUE /\ UNCHANGED outbox
OnConnect == connected' = TRUE /\ outbox' = TRUE

MqttConnects(enabled) ==
    /\ enabled /\ wifi = "up" /\ reach /\ ~ connected
    /\ OnConnect
    /\ session' = TRUE /\ status' = IF session THEN StatusAfterWill ELSE status
    /\ UNCHANGED <<reach, station, sending, lost>>

OnlineArrives ==
    /\ outbox /\ connected /\ session /\ wifi = "up" /\ reach
    /\ outbox' = FALSE /\ status' = "online"
    /\ UNCHANGED <<reach, station, connected, sending, lost, session>>

\* MQTT_EVENT_DISCONNECTED: the library has noticed.
OnDisconnect == connected' = FALSE

MqttNotices ==
    /\ connected /\ (wifi # "up" \/ ~ reach \/ ~ session)
    /\ OnDisconnect
    /\ UNCHANGED <<reach, station, outbox, sending, lost, broker>>

SessionExpires ==
    /\ session /\ (~ connected \/ wifi # "up" \/ ~ reach)
    /\ session' = FALSE /\ status' = StatusAfterWill
    /\ UNCHANGED <<reach, station, client>>

\* mqtt_publish_readings tests the flag ...
PublishBegins(running) ==
    /\ running /\ ~ sending /\ connected
    /\ sending' = TRUE
    /\ UNCHANGED <<reach, station, connected, outbox, lost, broker>>

\* ... and hands its message over later, with QoS 0: it is not kept.
PublishEnds ==
    /\ sending /\ sending' = FALSE
    /\ lost' = ~ (connected /\ session /\ wifi = "up" /\ reach)
    /\ UNCHANGED <<reach, station, connected, outbox, broker>>

ClientStops ==
    /\ connected' = FALSE /\ outbox' = FALSE /\ sending' = FALSE /\ lost' = FALSE

-----------------------------------------------------------------------------
(* Correctness                                                             *)

\* The station gives up only after MaxRetry + 1 disconnections with no address
\* in between: each time it is up it has all its tries again.
GivesUpRightly ==
    /\ wifi = "failed" => failures = MaxRetry + 1
    /\ wifi = "connecting" => failures <= MaxRetry

\* The broker shows the gateway online only while it holds a session whose will
\* takes that back, through restarts, takeovers and connections half dead.
OnlineIsRevocable == status = "online" => session
=============================================================================
