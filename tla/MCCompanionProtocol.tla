------------------------ MODULE MCCompanionProtocol ------------------------
EXTENDS CompanionProtocol
=============================================================================
