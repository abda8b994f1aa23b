--------------------------- MODULE BackendServices ---------------------------
(***************************************************************************)
(* The services of the backend beside the control of a device.  They share *)
(* no state with each other: a step of one changes nothing that another    *)
(* reads, and interleaving them would only multiply their states.  So each *)
(* behaviour moves one service, and the others stay as they start.  The    *)
(* fairness of a service asks for nothing there, as nothing has happened.  *)
(***************************************************************************)
EXTENDS AdbSession, AdbPairing, AdbListeners, InterceptHold, DeviceDiscovery,
        NotificationService, LiveStream

VARIABLE service    \* the service that this behaviour moves

Services == {"session", "pairing", "listeners", "hold", "discovery", "notification", "stream"}

ServicesInit ==
    /\ service \in Services
    /\ AdbInit /\ PairingInit /\ ListenersInit
    /\ HoldInit /\ DiscoveryInit /\ NotificationInit /\ LiveInit
    /\ service # "listeners" => ~enabled /\ present = Droids

ServicesNext ==
    /\ UNCHANGED service
    /\ \/ /\ service = "session" /\ AdbNext
          /\ UNCHANGED <<pairingVars, listenerVars, holdVars, discoveryVars, notificationVars,
                         liveVars>>
       \/ /\ service = "pairing" /\ PairingNext
          /\ UNCHANGED <<adbVars, listenerVars, holdVars, discoveryVars, notificationVars,
                         liveVars>>
       \/ /\ service = "listeners" /\ ListenersNext
          /\ UNCHANGED <<adbVars, pairingVars, holdVars, discoveryVars, notificationVars,
                         liveVars>>
       \/ /\ service = "hold" /\ HoldNext
          /\ UNCHANGED <<adbVars, pairingVars, listenerVars, discoveryVars, notificationVars,
                         liveVars>>
       \/ /\ service = "discovery" /\ DiscoveryNext
          /\ UNCHANGED <<adbVars, pairingVars, listenerVars, holdVars, notificationVars,
                         liveVars>>
       \/ /\ service = "notification" /\ NotificationNext
          /\ UNCHANGED <<adbVars, pairingVars, listenerVars, holdVars, discoveryVars,
                         liveVars>>
       \/ /\ service = "stream" /\ LiveNext
          /\ UNCHANGED <<adbVars, pairingVars, listenerVars, holdVars, discoveryVars,
                         notificationVars>>

servicesVars == <<service, adbVars, pairingVars, listenerVars, holdVars, discoveryVars,
                  notificationVars, liveVars>>

ServicesSpec ==
    /\ ServicesInit /\ [][ServicesNext]_servicesVars
    /\ AdbFairness /\ PairingFairness /\ ListenersFairness
    /\ HoldFairness /\ DiscoveryFairness /\ NotificationFairness

\* The variables of every service have their types.
ServicesTypeOK ==
    /\ service \in Services
    /\ AdbTypeOK /\ PairingTypeOK /\ ListenersTypeOK
    /\ HoldTypeOK /\ DiscoveryTypeOK /\ NotificationTypeOK /\ LiveTypeOK

=============================================================================
