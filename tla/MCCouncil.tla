----------------------------- MODULE MCCouncil -----------------------------
(* Instances of Council for TLC. *)
EXTENDS Council

CONSTANTS c1, c2, p1, p2, r1

ProviderEvents(ps, cs) == [type : {"provider_added", "provider_removed"}, contract : cs, pp : ps]
ChannelEvents(cs) == [type : {"channel_enabled", "channel_disabled"}, contract : cs, pp : {NoPp}]
QuietLedgers(cs) == [type : {"contract_initialized"}, contract : cs, pp : {NoPp}]

OneCouncil == {c1}
TwoCouncils == {c1, c2}
OneProvider == {p1}
TwoProviders == {p1, p2}
OneRequest == {r1}

(* Decisions about members and about channels.                             *)
MembersAndChannel == ProviderEvents(Pps, Contracts) \cup ChannelEvents({c1}) \cup QuietLedgers({c1})
=============================================================================
