---- MODULE MCStreamer ----
EXTENDS Streamer
====
