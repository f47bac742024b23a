------------------------- MODULE NotificationTemplates -------------------------
(***************************************************************************)
(* Notification templates: what a request must bring for a template.  A    *)
(* template is a function from the channels it offers to their             *)
(* definitions; texts and placeholders are left out.  Variables are the    *)
(* top-level names of templateVariables, whose values are not looked into. *)
(***************************************************************************)
CONSTANTS
  TemplateIds,  \* template ids a request may name
  VarNames,     \* names of template variables
  Templates     \* TemplateManagerService.templates, by id

Channels == {"EMAIL", "SMS"}

\* properties, demanded, closed: the JSON schema of the variables
ChannelDefinition == [properties: SUBSET VarNames, demanded: SUBSET VarNames,
                      closed: BOOLEAN]

ASSUME TemplatesAssumption ==
  \A id \in DOMAIN Templates : \A c \in DOMAIN Templates[id] :
    Templates[id][c] \in ChannelDefinition

\* `required' of the schema is no boolean of a property, which is what
\* json-schema 0.4 looks at: only `user', whose own schema has one, is demanded
UserCreated ==
  [c \in {"EMAIL"} |->
     [properties |-> {"user"}, demanded |-> {"user"}, closed |-> TRUE]]

\* NotificationTemplateFactory.make: every channel must be one it knows
MakesTemplate(channels) == DOMAIN channels \subseteq Channels

GetTemplate(id) == id \in DOMAIN Templates /\ MakesTemplate(Templates[id])

IsChannelAvailable(id, c) == c \in DOMAIN Templates[id]

\* validate of the json-schema package
Validates(schema, given) ==
  /\ schema.demanded \subseteq given
  /\ schema.closed => given \subseteq schema.properties

ValidateData(id, c, given) == Validates(Templates[id][c], given)

\* ValidateNotificationTemplateService
ValidTemplateRequest(id, c, given) ==
  /\ c \in Channels
  /\ GetTemplate(id)
  /\ IsChannelAvailable(id, c)
  /\ ValidateData(id, c, given)
===============================================================================
