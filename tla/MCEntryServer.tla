---------------------------- MODULE MCEntryServer ----------------------------
EXTENDS EntryServer
CONSTANTS reader, idler
=============================================================================
