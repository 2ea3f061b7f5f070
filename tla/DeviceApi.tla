------------------------------ MODULE DeviceApi ------------------------------
(***************************************************************************)
(* DeviceApi: connect() brings up Companion, AirPlay and MRP one after the *)
(* other, listens to all three once the last is up and reports the loss of *)
(* each; disconnect() takes them down in the reverse order.  AirPlay is    *)
(* modelled in full; of Companion and MRP, which have modules of their     *)
(* own, only what DeviceApi sees of them is kept.  The device offers all   *)
(* three, and one object makes one connect() and one disconnect().         *)
(***************************************************************************)
EXTENDS Airplay2Protocol

VARIABLES
  api,        \* what connect() of the device waits for
  ending,     \* what disconnect() of the device waits for
  held,       \* the protocols in this.protocols
  companion,  \* the Companion protocol
  mrp,        \* the MRP protocol
  attached,   \* whether MRP hears that the data channel breaks
  watched,    \* whether connect() got as far as listening to the protocols
  reported,   \* protocols whose loss was emitted as connection-lost
  early       \* whether disconnect() came before the end of connect()

apiVars == <<api, ending, held, early>>
mrpVars == <<mrp, attached>>
deviceVars == <<vars, apiVars, companion, mrpVars, watched, reported>>

Protocols == {"companion", "airplay", "mrp"}

DeviceTypeOK ==
  /\ TypeOK
  /\ api \in {"new", "companion", "airplay", "mrp", "apis", "connected", "failed"}
  /\ ending \in {"none", "airplay", "teardown", "companion", "done"}
  /\ held \subseteq Protocols
  /\ companion \in {"null", "connecting", "up", "failed", "idle"}
  /\ mrp \in {"null", "waiting", "setup", "up", "failed", "idle"}
  /\ attached \in BOOLEAN
  /\ watched \in BOOLEAN
  /\ reported \subseteq Protocols
  /\ early \in BOOLEAN

DeviceInit == /\ Init
              /\ api = "new"
              /\ ending = "none"
              /\ held = {}
              /\ companion = "null"
              /\ mrp = "null"
              /\ attached = FALSE
              /\ watched = FALSE
              /\ reported = {}
              /\ early = FALSE

-----------------------------------------------------------------------------
(* connect() *)

ConnectCompanion == /\ api = "new"
                    /\ api' = "companion"
                    /\ held' = held \cup {"companion"}
                    /\ companion' = "connecting"
                    /\ UNCHANGED <<vars, ending, early, mrpVars, watched, reported>>

\* Companion is up: AirPlay is created and connected, whatever disconnect() did.
ConnectAirPlay == /\ api = "companion"
                  /\ companion = "connecting"
                  /\ companion' = "up"
                  /\ api' = "airplay"
                  /\ held' = held \cup {"airplay"}
                  /\ Connect
                  /\ UNCHANGED <<ending, early, mrpVars, watched, reported>>

\* AirPlay is up: MRP insists on it and on its data channel, sets up at once on
\* a connected one and waits for the others to connect.
ConnectMRP ==
  /\ Quiet
  /\ api = "airplay"
  /\ step = "returned"
  /\ IF "airplay" \notin held
     THEN api' = "failed" /\ UNCHANGED <<held, mrpVars>>
     ELSE /\ held' = held \cup {"mrp"}
          /\ mrp' = CASE data = "none" -> "failed"
                      [] data = "open" -> "setup"
                      [] OTHER -> "waiting"
          /\ attached' = (data = "open")
          /\ api' = IF data = "none" THEN "failed" ELSE "mrp"
  /\ UNCHANGED <<vars, ending, early, companion, watched, reported>>

\* The messages of MRP were answered: connect() listens to all protocols.
SetUpMRP == /\ Quiet
            /\ api = "mrp"
            /\ mrp = "setup"
            /\ mrp' = "up"
            /\ api' = "apis"
            /\ watched' = TRUE
            /\ UNCHANGED <<vars, ending, early, held, companion, attached, reported>>

\* A message of MRP, or the wait for the data channel, times out.
MRPTimesOut == /\ Quiet
               /\ api = "mrp"
               /\ mrp \in {"waiting", "setup"}
               /\ api' = "failed"
               /\ UNCHANGED <<vars, ending, early, held, companion, mrpVars, watched, reported>>

\* The device information was read and the APIs are created.
InitializeApis == /\ Quiet
                  /\ api = "apis"
                  /\ api' = "connected"
                  /\ UNCHANGED <<vars, ending, early, held, companion, mrpVars, watched, reported>>

-----------------------------------------------------------------------------
(* The protocols *)

\* MRP fails as the data channel closes, whoever closed it, and once only; the
\* setup it was in fails with it.  disconnect() of MRP leaves the wrapper of
\* this listener behind, so that even an idle MRP fails.
MRPReacts ==
  IF attached /\ data = "open" /\ data' # "open"
  THEN /\ attached' = FALSE
       /\ mrp' = "failed"
       /\ api' = IF api = "mrp" THEN "failed" ELSE api
  ELSE UNCHANGED <<mrpVars, api>>

\* The protocols whose loss is emitted: those that become failed, while DeviceApi
\* listens and they have not removed its listeners.
Reports ==
  reported' = IF ~watched THEN reported ELSE
    reported \cup {p \in Protocols :
      CASE p = "companion" -> companion # "failed" /\ companion' = "failed"
        [] p = "airplay"   -> listening /\ state # "failed" /\ state' = "failed"
        [] p = "mrp"       -> mrp \notin {"idle", "failed"} /\ mrp' = "failed"}

CompanionLost == /\ Quiet
                 /\ companion = "up"
                 /\ companion' = "failed"
                 /\ UNCHANGED <<vars, apiVars, mrpVars, watched>>
                 /\ Reports

\* AirPlay goes on by itself, heard by MRP and by the device.
AirPlayStep == /\ \/ Attempt \/ TransportOpen \/ TransportFails \/ LocalWait
                  \/ EventOpen \/ DataOpen
                  \/ \E ok \in BOOLEAN : Respond(ok)
                  \/ Continue \/ Feedback \/ FeedbackEnds
                  \/ Lost \/ ChannelLost \/ SocketError \/ DecryptFails
               /\ MRPReacts
               /\ UNCHANGED companion
               /\ Reports
               /\ UNCHANGED <<ending, held, early, watched>>

-----------------------------------------------------------------------------
(* disconnect() *)

EndMRP_OnlyForgets ==
  /\ Quiet
  /\ ending = "none"
  /\ "mrp" \in held
  /\ ending' = "airplay"
  /\ early' = (api \notin {"connected", "failed"})
  /\ held' = held \ {"mrp"}
  /\ api' = IF mrp = "setup" THEN "failed" ELSE api
  /\ UNCHANGED <<vars, companion, mrpVars, watched, reported>>

\* MRP first: it rejects the setup that runs and removes all listeners.
EndMRP == /\ Quiet
          /\ ending = "none"
          /\ "mrp" \in held
          /\ ending' = "airplay"
          /\ early' = (api \notin {"connected", "failed"})
          /\ held' = held \ {"mrp"}
          /\ mrp' = "idle"
          /\ api' = IF mrp = "setup" THEN "failed" ELSE api
          /\ UNCHANGED <<vars, companion, attached, watched, reported>>

\* AirPlay next, at once when there is no MRP.  It ignores a disconnect() while
\* it is idle.
EndAirPlay == /\ Quiet
              /\ \/ ending = "airplay" /\ UNCHANGED early
                 \/ /\ ending = "none" /\ api # "new" /\ "mrp" \notin held
                    /\ early' = (api \notin {"connected", "failed"})
              /\ IF "airplay" \in held /\ state \notin {"idle", "disconnecting"}
                 THEN Disconnect ELSE UNCHANGED vars
              /\ ending' = IF closing' THEN "teardown" ELSE "companion"
              /\ held' = IF closing' THEN held ELSE held \ {"airplay"}
              /\ MRPReacts
              /\ UNCHANGED <<companion, watched>>
              /\ Reports

AirPlayEnded == /\ ending = "teardown"
                /\ TornDown
                /\ ending' = "companion"
                /\ held' = held \ {"airplay"}
                /\ MRPReacts
                /\ UNCHANGED <<companion, watched, early>>
                /\ Reports

\* Companion has stopped its session, or was idle.
EndCompanion == /\ ending = "companion"
                /\ Quiet
                /\ ending' = "done"
                /\ held' = held \ {"companion"}
                /\ companion' = IF "companion" \in held THEN "idle" ELSE companion
                /\ UNCHANGED <<vars, api, early, mrpVars, watched, reported>>

-----------------------------------------------------------------------------
DeviceNext == \/ ConnectCompanion \/ ConnectAirPlay \/ ConnectMRP
              \/ SetUpMRP \/ MRPTimesOut \/ InitializeApis
              \/ CompanionLost \/ AirPlayStep
              \/ EndMRP \/ EndAirPlay \/ AirPlayEnded \/ EndCompanion

DeviceSpec == DeviceInit /\ [][DeviceNext]_deviceVars

\* Settled promises are continued, the Apple TV answers what reaches it, and
\* disconnect() goes on after each protocol.
DeviceFairSpec ==
  /\ DeviceSpec
  /\ WF_deviceVars(AirPlayStep /\ Continue)
  /\ WF_deviceVars(AirPlayStep /\ FeedbackEnds)
  /\ WF_deviceVars(AirPlayStep /\ \E ok \in BOOLEAN : Respond(ok))
  /\ WF_deviceVars(ending = "airplay" /\ EndAirPlay)
  /\ WF_deviceVars(AirPlayEnded)
  /\ WF_deviceVars(EndCompanion)

-----------------------------------------------------------------------------
(* Properties *)

\* A loss is only reported of a protocol whose connection broke: disconnect()
\* never looks like one, although it closes the channel MRP watches
\* (disconnect, _setupProtocolListeners).
NoFalseAlarm ==
  [][ ~early' =>
        /\ "airplay" \in reported' \ reported => /\ transport \in {"open", "error"}
                                                /\ transport' = "closed"
                                                /\ state # "disconnecting"
        /\ "mrp" \in reported' \ reported => data = "open" /\ data' = "closed"
    ]_deviceVars

\* disconnect() ends, and Companion is disconnected too, unless it waits for good
\* for the answer to a TEARDOWN on a connection that closed, had an error or can
\* no longer be read (disconnect; the wait has no timer).
DeviceDisconnects ==
  ending # "none" ~> \/ ending = "done" /\ "companion" \notin held
                     \/ [](ending = "teardown" /\ (transport # "open" \/ encryption = "error"))

\* "Disconnect all connected protocols in reverse dependency order" (disconnect):
\* Companion, the last in that order, is disconnected in the end.
AllDisconnected == ending # "none" ~> "companion" \notin held

\* "When a protocol transitions to Failed, emit connection-lost".
LossReported ==
  api = "connected" /\ ending = "none" =>
    /\ companion = "failed" => "companion" \in reported
    /\ state = "failed" => "airplay" \in reported
    /\ mrp = "failed" => "mrp" \in reported
=============================================================================
