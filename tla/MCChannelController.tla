------------------------ MODULE MCChannelController ------------------------
EXTENDS ChannelControllerClient
MCEnds == {<<2, 1>>, <<3, 1>>}
=============================================================================
