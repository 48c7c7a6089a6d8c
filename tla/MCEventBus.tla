---------------------------- MODULE MCEventBus ----------------------------
(* Small instances of EventBus for TLC.                                    *)
EXTENDS EventBus

TwoEvents == <<"user.registered", "order.status_changed">>
=============================================================================
