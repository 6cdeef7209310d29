-------------------------------- MODULE MCBoot --------------------------------
EXTENDS Boot

Given(json, items) == [given |-> TRUE, json |-> json, items |-> items]
Rule(action) == [owner |-> "org", pattern |-> "text", action |-> action]
Token(kind, origins) == [reference |-> "text", kind |-> kind, origins |-> origins]

Relayed == [DefaultPlan EXCEPT !.base = "bytes", !.net = 1, !.host_call = 1,
                               !.sidecar_only = TRUE]
Real == [DefaultPlan EXCEPT !.net = 2, !.approval = TRUE,
           !.policies = Given(TRUE, <<Rule("require_approval"), Rule("block")>>),
           !.connections = Given(TRUE, <<Token("bearer", "text"), Token("odd", "absent")>>)]

\* All denied but storage, requests relayed, RealNet; and what is refused.
MCOptions ==
  {[DefaultPlan EXCEPT !.persist = 1], Relayed, Real,
   [Relayed EXCEPT !.layers = "bytes"], [DefaultPlan EXCEPT !.base = "null"],
   [Relayed EXCEPT !.policies = Real.policies], [DefaultPlan EXCEPT !.approval = TRUE],
   [Real EXCEPT !.policies.items[1].action = "allow"], [Real EXCEPT !.policies.json = FALSE],
   [Real EXCEPT !.connections.items[2].kind = "cookie"],
   [DefaultPlan EXCEPT !.net = 3], [DefaultPlan EXCEPT !.host_call = 2]}

MCAskInTick == BOOLEAN
=============================================================================
