----------------------- MODULE MCNotificationDelivery -----------------------
(***************************************************************************)
(* Instances of NotificationDelivery for TLC.                              *)
(***************************************************************************)
EXTENDS NotificationDelivery, TLC

\* A mobile as it is copied from a call log, and a landline.
Numbers == {[dialled |-> TRUE, prefix |-> "880", isMobile |-> TRUE],
            [dialled |-> FALSE, prefix |-> "0", isMobile |-> FALSE]}

\* Users, tokens and sends differ in nothing but their names.
Symmetry == Permutations(User) \union Permutations(Token) \union Permutations(Send)

=============================================================================
