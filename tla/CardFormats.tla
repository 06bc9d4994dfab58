---------------------------- MODULE CardFormats ----------------------------
(***************************************************************************)
(* The definitions of card_readouts.h and commands_definitions.h: what the *)
(* bytes of a card, and of a transmitted punch, mean to the program.       *)
(***************************************************************************)
EXTENDS CommandParameter

punch_1byte_def == <<BitsRange("control_number", 7, 0)>>
punch_3bytes_def == <<BitsRange("control_number", 7, 0), BitsRange("time_12h", 15, 0)>>
punch_4bytes_def == <<BitsRange("control_number", 9, 8), BitsRange("day_of_week", 1, 0),
                      BitsRange("week_counter", 2, 0), BitsRange("am_pm", 0, 0),
                      BitsRange("control_number", 7, 0), BitsRange("time_12h", 15, 0)>>
punch_8bytes_def == <<BitsRange("control_number", 7, 0), BitsRange("si_station_id", 17, 0),
                      BitsRange("punch_year", 3, 0), BitsRange("punch_month", 3, 0),
                      BitsRange("punch_day", 4, 0), BitsRange("am_pm", 0, 0),
                      BitsRange("time_12h", 15, 0), BitsRange("punch_sub_second", 7, 0)>>

punch_1byte_type == Bits(punch_1byte_def)
punch_3bytes_type == Bits(punch_3bytes_def)
punch_4bytes_type == Bits(punch_4bytes_def)
punch_8bytes_type == Bits(punch_8bytes_def)

\* The type of the punch with index i.
punch_type(c, i) == CASE c = "card_5" -> IF i < 30 THEN punch_3bytes_type ELSE punch_1byte_type
                      [] c = "card_t" -> punch_8bytes_type
                      [] OTHER -> punch_4bytes_type

card_5_header_def ==
    <<Part(Skipped, 4), Part("card_id", 2), Part("card_serie", 1), Part(Skipped, 10),
      Part("start_no", 2), Part("start_time", 2), Part("finish_time", 2),
      Part("record_counter", 1), Part(Skipped, 1), Part("check_time", 2)>>

card_6_header_def ==
    <<Part(Skipped, 8), Part(Skipped, 2), Part("card_id", 4), Part(Skipped, 2),
      Part("last_visited_control", 2), Part("record_counter", 1), Part("next_record", 1),
      Part("finish_time", 4), Part("start_time", 4), Part("check_time", 4),
      Part("clear_time", 4), Part(Skipped, 4), Part("start_no", 4)>>

card_8_header_def ==
    <<Part("device_uid", 4), Part("type_identifier", 4), Part("check_time", 4),
      Part("start_time", 4), Part("finish_time", 4), Part("last_visited_control", 2),
      Part("record_counter", 1), Part(Skipped, 1), Part(Skipped, 1), Part("card_id", 3)>>

HeaderDef(c) == CASE c = "card_5" -> card_5_header_def
                  [] c = "card_6" -> card_6_header_def
                  [] OTHER -> card_8_header_def

card_id_serie == Bits(<<DontCare(4), BitsRange("card_serie", 3, 0), BitsRange("card_id", 23, 0)>>)

\* transmit_record of the two protocols.
transmit_record_data_def ==
    [extended |-> <<Part("cn", 2), Part("si", 4), Part("td", 1), Part("t", 2), Part("tss", 1),
                    Part("mem", 3)>>,
     basic |-> <<Part("td", 1), Part("cn", 1), Part("sis", 1), Part("sisn", 2), Part("ql", 1),
                 Part("t", 2), Part("tss", 1), Part("crc", 2)>>]
=============================================================================
