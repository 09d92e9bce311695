---- MODULE MCNotificationHub ----
(* Small instances of NotificationHub for TLC: users of one tenant. *)
EXTENDS NotificationHub

OneUserEach == [c \in Client |-> c]
OneTenant == [c \in Client |-> "t1"]
==================================
