------------------------------ MODULE MCBroker ------------------------------
(***************************************************************************)
(* Constants for checking Broker: topics and patterns split at '/', and    *)
(* Matches as Topics defines it.                                           *)
(***************************************************************************)
EXTENDS BrokerDelivery

T == INSTANCE Topics

News == <<"news", "sport">>
Weather == <<"weather">>

OneLevel == <<"news", "+">>
Everything == <<"*">>

OneTopic == {News}
TwoTopics == {News, Weather}
OnePattern == {OneLevel}
TwoPatterns == {OneLevel, Everything}

MatchesByDefinition == {tp \in Topics \X Patterns : T!Accepts(tp[1], tp[2])}

NoCommands == {}
StoreOnly == {Subscribe(OneLevel, TRUE)}
Routing == {Subscribe(OneLevel, TRUE), Subscribe(OneLevel, FALSE),
            Subscribe(Everything, TRUE), Unsubscribe(OneLevel)}
=============================================================================
