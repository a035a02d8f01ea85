SPECIFICATION Spec
INVARIANTS  ProtocolsSound PullSound PeersSound NotifySound
PROPERTIES MuxChannels OffersInOrder AllAnswered
CHECK_DEADLOCK FALSE
