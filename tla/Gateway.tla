------------------------------- MODULE Gateway -------------------------------
(***************************************************************************)
(* The device as a whole, without its meter: app_main starts Wi-Fi, MQTT   *)
(* if it is enabled, the web server and the task for the meter, from the   *)
(* stored settings; a save or a power cut ends all of it.                  *)
(***************************************************************************)
EXTENDS Settings, Uplink

vars == <<settings, uplink>>

TypeOK == SettingsTypeOK /\ UplinkTypeOK

Init == SettingsInit /\ UplinkInit

MqttEnabled == on /\ used["mqtt_en"] = "1"

Boot == BootSettings /\ StationStarts /\ UNCHANGED <<reach, client, broker>>

Down ==
    /\ Restart \/ PowerCut
    /\ wifi' = "off" /\ retries' = 0 /\ failures' = 0
    /\ ClientStops
    /\ UNCHANGED <<reach, broker>>

Saving == ((\E f \in Forms : Post(f)) \/ SetField \/ Reply) /\ UNCHANGED uplink

Mqtt == MqttConnects(MqttEnabled) \/ OnlineArrives \/ MqttNotices

Publishing == PublishBegins(TaskRuns) \/ PublishEnds

Link == Disconnected \/ GotIp \/ AccessPoint \/ Mqtt \/ SessionExpires \/ Publishing

Next == Boot \/ Down \/ Saving \/ (Link /\ UNCHANGED settings)

Spec == Init /\ [][Next]_vars

\* Power comes back; a request that has begun is carried out; the station is
\* told of its address or of its failure; the MQTT library connects, sends and
\* notices; the broker gives up dead sessions; the meter task goes on reading.
FairSpec ==
    /\ Spec
    /\ WF_vars(Boot)
    /\ WF_vars((SetField \/ Reply) /\ UNCHANGED uplink)
    /\ WF_vars(Restart /\ Down)
    /\ WF_vars((Disconnected \/ GotIp) /\ UNCHANGED settings)
    /\ WF_vars(Mqtt /\ UNCHANGED settings)
    /\ WF_vars(SessionExpires /\ UNCHANGED settings)
    /\ WF_vars(Publishing /\ UNCHANGED settings)

-----------------------------------------------------------------------------
(* Correctness                                                             *)

\* Once the device stays on with the access point in reach, it is in the end
\* connected for good, or it had already given up.
BackInReach ==
    <>[](on /\ reach) => <>[](wifi = "up") \/ <>[](wifi = "failed")

\* ... and with MQTT enabled the broker shows it online for good and no message
\* of the meter task is lost any more, whatever the flag said in between.
BackOnline ==
    <>[](MqttEnabled /\ wifi = "up" /\ reach)
        => <>[](status = "online" /\ (TaskRuns => ~ lost))

\* A gateway that is never connected again is not shown online for ever.
StatusFollows == <>[](~ connected) => <>[](status # "online")
=============================================================================
