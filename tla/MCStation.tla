----------------------------- MODULE MCStation -----------------------------
(* The session for TLC: which packets the backends send is what tells the  *)
(* runs apart.                                                             *)
EXTENDS Station

Ask(op, target) == [op |-> op, target |-> target, wellFormed |-> TRUE, onChange |-> FALSE]
Malformed(r) == [r EXCEPT !.wellFormed = FALSE]
OnChangeOnly(r) == [r EXCEPT !.onChange = TRUE]

(* Audio and infrared streams. *)
StreamRequests == {Ask("Subscribe", "MicPCM"), Ask("Subscribe", "MicComp"),
                   Ask("Subscribe", "IrReceive"), Ask("Unsubscribe", "MicPCM")}

(* Sensors, and the stream that survives a failed write. *)
SensorRequests == {OnChangeOnly(Ask("Subscribe", "Temperature")),
                   Ask("Subscribe", "Humidity"),
                   Ask("Subscribe", "AmbientLight"),
                   Ask("Unsubscribe", "Temperature"),
                   Ask("Subscribe", "MicComp")}

(* One-shot commands, and what is refused. *)
CommandRequests == {Ask("Heartbeat", "NoTarget"),
                    Ask("Subscribe", "MicComp"),
                    Malformed(Ask("Unsubscribe", "MicComp")),
                    Malformed(Ask("IrTransmit", "NoTarget")),
                    Ask("SpkPCM", "NoTarget"),
                    Ask("SpkComp", "NoTarget"),
                    Ask("Error", "NoTarget")}

AllReady == {Drivers}
SomeReady == {Drivers, {"dht"}}
NoMicrophone == {Drivers \ {"mic"}}
=============================================================================
