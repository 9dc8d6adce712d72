----------------------- MODULE MCNotificationDelivery -----------------------
(* NotificationDelivery with two job handlers.                               *)
EXTENDS NotificationDelivery

CONSTANTS w1, w2
=============================================================================
