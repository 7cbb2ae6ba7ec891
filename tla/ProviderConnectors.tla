---- MODULE ProviderConnectors ----
(***************************************************************************)
(* The five provider connectors of the cloud as the installation handlers  *)
(* see them: which secrets a configuration needs, which webhooks are       *)
(* verified and understood, which actions are supported.  Requests to the  *)
(* provider itself either succeed or fail; the handlers choose.            *)
(* Source: src/internal/cloud/connectors/.                                 *)
(***************************************************************************)

\* What each connector's NormalizeEvent understands; other kinds are errors.
\* Linear and Slack turn every signed payload into some event.
githubEvents == {"issues", "pull_request", "push"}
gitlabEvents == {"issue", "merge_request", "push"}
linearEvents == {"any"}
slackEvents  == {"any"}

githubActions == {"create_issue_comment", "create_issue"}
gitlabActions == {"create_issue_note", "create_issue"}
jiraActions   == {"add_issue_comment", "transition_issue"}
linearActions == {"create_issue", "add_comment"}
slackActions  == {"post_message", "update_message"}

\* The secrets, the webhooks and the actions of each provider.
Registry ==
    LET signed == {"token", "webhook_secret"}
    IN  [github |-> [secrets |-> signed, events |-> githubEvents, actions |-> githubActions],
         gitlab |-> [secrets |-> signed, events |-> gitlabEvents, actions |-> gitlabActions],
         jira   |-> [secrets |-> {"token"}, events |-> {}, actions |-> jiraActions],
         linear |-> [secrets |-> signed, events |-> linearEvents, actions |-> linearActions],
         slack  |-> [secrets |-> signed, events |-> slackEvents, actions |-> slackActions]]

Providers == DOMAIN Registry

\* Every provider's ValidateConfig wants the API token.
ValidateConfig(secrets) == "token" \in secrets

\* Jira never verifies ("deferred"); the others need the webhook secret and a
\* signature made with it.
jiraVerifyWebhook == "deferred"
signedWebhook(secrets, signed) ==
    IF "webhook_secret" \in secrets /\ signed THEN "verified" ELSE "error"
VerifyWebhook(p, secrets, signed) ==
    IF p = "jira" THEN jiraVerifyWebhook ELSE signedWebhook(secrets, signed)

NormalizeEvent(p, kind) == kind \in Registry[p].events \/ "any" \in Registry[p].events

\* An action fails without its token, when it is not one of the provider's, or
\* when the provider does not answer well.
ExecuteAction(p, secrets, name, answers) ==
    "token" \in secrets /\ name \in Registry[p].actions /\ answers

====
