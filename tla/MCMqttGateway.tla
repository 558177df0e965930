------------------------ MODULE MCMqttGateway ------------------------
\* MqttGateway with fields that differ in behaviour: the first block, with and without
\* a number, and the two scenes of which one is a prefix of the other.
EXTENDS MqttGateway
MCCloudField == {<<"LEDSwitch1", "0">>, <<"LEDSwitch1", "text">>,
                 <<"LEDsceneS1", "0">>, <<"LEDsceneS10", "0">>}
======================================================================
