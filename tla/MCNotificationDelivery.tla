------------------------ MODULE MCNotificationDelivery ------------------------
(***************************************************************************)
(* NotificationDelivery with the template the program ships and one more,  *)
(* for both channels.                                                      *)
(***************************************************************************)
EXTENDS NotificationDeliveryProps

MCVarNames == {"user", "token"}

ShippedTemplates == [id \in {"user-created"} |-> UserCreated]

MCTemplates ==
  [id \in {"user-created", "reset"} |->
     IF id = "user-created" THEN UserCreated
     ELSE [c \in Channels |->
             [properties |-> MCVarNames, demanded |-> {"token"}, closed |-> TRUE]]]

Mail(t, given, a) == [template |-> t, channel |-> "EMAIL", given |-> given, address |-> a]
Text(t, given) == [Mail(t, given, "valid") EXCEPT !.channel = "SMS"]

MCRequests ==
  {Mail("reset", MCVarNames, "valid"), Text("reset", {"token"}),
   Text("user-created", {"user"}), Mail("reset", {"token"}, "invalid"),
   ControllerRequest}

\* every request there is
AllRequests == Command

\* the forms of a channel as the parts of the program read them: the schema,
\* the factory and the collection know the literal one only
ShippedReads == [part \in {"schema", "factory", "store"} |-> {"literal"}]

\* the parts agree on the forms
AgreedReads == [part \in {"schema", "factory", "store"} |-> Forms]
===============================================================================
