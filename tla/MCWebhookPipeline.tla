-------------------------- MODULE MCWebhookPipeline --------------------------
(* Two commits of one pull request, and no event after them.                *)
EXTENDS WebhookPipeline

TwoCommits == <<"web#1", "web#1">>
=============================================================================
